---- MODULE Spec2Model ----
(***************************************************************************)
(* The stdio tool servers of AgenticCoder (.github/mcp/*/server.py): the   *)
(* Content-Length framed read loop, the JSON-RPC dispatcher `handle`, and   *)
(* the retrying upstream fetch `fetch_prices` of the pricing server.        *)
(*                                                                          *)
(* A byte is a string.  Header bytes are single characters.  A byte of a   *)
(* JSON text is one JSON token ("{", "}", a key:value pair such as          *)
(* "id:1", or a key opening a nested object such as "params:{"): the read   *)
(* loop treats a body as opaque bytes counted by Content-Length, and        *)
(* JsonLoads parses the token sequence into a message.  "xFF" is a byte     *)
(* that is not valid UTF-8.  Durations are in milliseconds.                 *)
(*                                                                          *)
(* Two inputs run into limits of the interpreter: a Content-Length of more  *)
(* decimal digits than int() converts from a string (DigitRun, one byte of  *)
(* the model), and an identifier nested more deeply than json.dumps can     *)
(* serialise from inside handle (the token "id:[[..]]").                    *)
(***************************************************************************)
EXTENDS Integers, Sequences, FiniteSets, TLC

VARIABLES
    stream,      \* every byte the client will ever write to stdin
    pos,         \* how many bytes of stream the reads have returned so far
    buffer,      \* run_mcp_stdio: buffer
    pc,          \* where the process is: read, decode, fetch, sleep, ret, done, crashed
    out,         \* the responses written to stdout by _mcp_write, in order
    stdout,      \* the bytes written to sys.stdout.buffer
    upstream,    \* history: for each response written, how the fetch it was built from ended
    handled,     \* the messages passed to handle(), in order
    cur,         \* the tools/call being served while fetch_prices runs
    server,      \* which of the three servers this process is
    RETRIES,     \* module constant RETRIES (AZURE_PRICING_RETRIES)
    BACKOFF,     \* module constant BACKOFF (AZURE_PRICING_BACKOFF), in ms
    jsonErrIsRequestException, \* requests >= 2.27: resp.json() raises a RequestException
    attempt,     \* fetch_prices: attempt
    calls,       \* requests.get calls made by the current fetch_prices invocation
    sleeps,      \* time.sleep durations of the current fetch_prices invocation
    last_error,  \* fetch_prices: last_error
    outcomes,    \* history: how each requests.get of this invocation ended
    frames,      \* history: how many frames the inner loop has cut off the buffer
    partial,     \* history: some read returned fewer bytes than the client had written
    fetchRet     \* how the last fetch_prices invocation ended

vars == <<stream, pos, buffer, pc, out, stdout, upstream, handled, cur, server, RETRIES, BACKOFF,
          jsonErrIsRequestException, attempt, calls, sleeps, last_error, outcomes,
          frames, partial, fetchRet>>

----------------------------------------------------------------------------
(* Bounds of the model.                                                     *)

MaxRetries == 4        \* largest RETRIES tried when fetch_prices is called on its own
MaxServerRetries == 2  \* largest RETRIES tried under the read loop
MaxItems == 10         \* largest number of items in an upstream reply

----------------------------------------------------------------------------
(* Bytes and the framing helpers.                                           *)

Min(S) == CHOOSE x \in S : \A y \in S : x <= y

Drop(s, n) == SubSeq(s, n + 1, Len(s))

\* b"\r\n\r\n"
Separator == <<"\r", "\n", "\r", "\n">>

\* buffer.find(b"\r\n\r\n"): 0-based index of the first occurrence, or -1
Find(buf, pat) ==
    LET hits == {i \in 0..(Len(buf) - Len(pat)) : SubSeq(buf, i + 1, i + Len(pat)) = pat}
    IN  IF hits = {} THEN -1 ELSE Min(hits)

\* bytes.decode("utf-8", errors="ignore"): undecodable bytes are left out
Utf8Ignore(bytes) == SelectSeq(bytes, LAMBDA b : b # "xFF")

\* re.IGNORECASE, on the letters of the pattern
Lower(c) ==
    CASE c = "C" -> "c" [] c = "O" -> "o" [] c = "N" -> "n" [] c = "T" -> "t"
      [] c = "E" -> "e" [] c = "L" -> "l" [] c = "G" -> "g" [] c = "H" -> "h"
      [] OTHER -> c

Keyword == <<"c", "o", "n", "t", "e", "n", "t", "-", "l", "e", "n", "g", "t", "h", ":">>

Digits == <<"0", "1", "2", "3", "4", "5", "6", "7", "8", "9">>

\* a header byte that stands for a run of 4301 digits, one more than int()
\* converts from a string (CPython 3.11, and the security releases since
\* 3.10.7: ValueError "Exceeds the limit (4300 digits)")
DigitRun == "9{4301}"

IsDigit(c) == c = DigitRun \/ \E d \in 1..10 : Digits[d] = c

DigitVal(c) == (CHOOSE d \in 1..10 : Digits[d] = c) - 1

\* \s of the pattern
IsSpace(c) == c \in {" ", "\t", "\r", "\n"}

RECURSIVE ParseInt(_)
\* int(match.group(1))
ParseInt(ds) ==
    IF Len(ds) = 0 THEN 0
    ELSE 10 * ParseInt(SubSeq(ds, 1, Len(ds) - 1)) + DigitVal(ds[Len(ds)])

RECURSIVE ToDecimal(_)
\* the decimal digits of len(payload) in the f-string of _mcp_write
ToDecimal(n) ==
    IF n < 10 THEN <<Digits[n + 1]>>
    ELSE ToDecimal(n \div 10) \o <<Digits[(n % 10) + 1]>>

\* first index >= i of text that is not whitespace (Len(text)+1 if none)
SkipSpace(text, i) ==
    Min({j \in i..(Len(text) + 1) : j = Len(text) + 1 \/ ~IsSpace(text[j])})

\* last index of the digit run that starts at i
DigitsEnd(text, i) ==
    Min({j \in i..Len(text) : j = Len(text) \/ ~IsDigit(text[j + 1])})

\* does r"Content-Length:\s*(\d+)" match at 1-based position p of text
MatchAt(text, p) ==
    /\ p + Len(Keyword) - 1 <= Len(text)
    /\ \A k \in 1..Len(Keyword) : Lower(text[p + k - 1]) = Keyword[k]
    /\ LET d == SkipSpace(text, p + Len(Keyword))
       IN  d <= Len(text) /\ IsDigit(text[d])

\* int(ds) raises ValueError: the string has more digits than the limit
IntRaises(ds) == \E k \in 1..Len(ds) : ds[k] = DigitRun

\* re.search(r"Content-Length:\s*(\d+)", header_text, flags=re.IGNORECASE) and
\* int(match.group(1)): the declared length of the leftmost match, -1 when
\* nothing matches, -2 when int() raises
HeaderMatch(text) ==
    LET ps == {p \in 1..Len(text) : MatchAt(text, p)}
    IN  IF ps = {} THEN -1
        ELSE LET d == SkipSpace(text, Min(ps) + Len(Keyword))
                 ds == SubSeq(text, d, DigitsEnd(text, d))
             IN  IF IntRaises(ds) THEN -2 ELSE ParseInt(ds)

\* variant: the header block ends with bare line feeds
McpFrameLf(payload) ==
    <<"C", "o", "n", "t", "e", "n", "t", "-", "L", "e", "n", "g", "t", "h", ":", " ">>
        \o ToDecimal(Len(payload)) \o <<"\n", "\n">> \o payload

\* _mcp_write: the header f"Content-Length: {len(payload)}\r\n\r\n", then the payload
McpFrame(payload) ==
    <<"C", "o", "n", "t", "e", "n", "t", "-", "L", "e", "n", "g", "t", "h", ":", " ">>
        \o ToDecimal(Len(payload)) \o Separator \o payload

----------------------------------------------------------------------------
(* JSON texts and json.loads.  A decoded message is a record of strings:    *)
(* "absent" is a missing key, "null" is JSON null, "other" is a value that  *)
(* is truthy and not an object (a non-empty array), "dict" is an object.    *)

Blank(kind) ==
    [kind |-> kind, id |-> "absent", method |-> "absent", params |-> "absent",
     name |-> "absent", arguments |-> "absent", sku |-> "absent",
     quantity |-> "absent", region |-> "absent", currency |-> "absent",
     query |-> "absent", kusto |-> "absent"]

\* what json.loads raising is modelled as
JsonFail == Blank("fail")

\* key:value pairs of the top-level object
TopPairs ==
    {<<"id:null", "id", "null">>, <<"id:0", "id", "0">>, <<"id:1", "id", "1">>,
     <<"id:2", "id", "2">>, <<"id:[[..]]", "id", "deep">>,
     <<"method:initialize", "method", "initialize">>, <<"method:ping", "method", "ping">>,
     <<"method:tools/list", "method", "tools/list">>,
     <<"method:tools/call", "method", "tools/call">>,
     <<"method:nope", "method", "nope">>, <<"method:null", "method", "null">>,
     <<"params:null", "params", "null">>, <<"params:[1]", "params", "other">>}

\* key:value pairs of the params object
ParamPairs ==
    {<<"name:price_search", "name", "price_search">>,
     <<"name:cost_estimate", "name", "cost_estimate">>,
     <<"name:search", "name", "search">>, <<"name:query", "name", "query">>,
     <<"name:nope", "name", "nope">>,
     <<"arguments:null", "arguments", "null">>,
     <<"arguments:[1]", "arguments", "other">>}

\* key:value pairs of the arguments object ("sku:" is the empty string,
\* "sku: " a blank one, "quantity:x" a string that is no integer)
ArgPairs ==
    {<<"sku:B2s", "sku", "B2s">>, <<"sku:", "sku", "">>, <<"sku: ", "sku", " ">>,
     <<"quantity:2", "quantity", "2">>, <<"quantity:0", "quantity", "0">>,
     <<"quantity:x", "quantity", "x">>,
     <<"quantity:null", "quantity", "null">>,
     <<"sku: B2s ", "sku", " B2s ">>, <<"sku:O'N", "sku", "O'N">>,
     <<"region:eastus", "region", "eastus">>, <<"region: ", "region", " ">>,
     <<"region:null", "region", "null">>,
     <<"currency:USD", "currency", "USD">>, <<"currency: ", "currency", " ">>,
     <<"query:q", "query", "q">>, <<"kusto:k", "kusto", "k">>}

PairOf(table, t) == CHOOSE p \in table : p[1] = t

IsPair(table, t) == \E p \in table : p[1] = t

\* a later duplicate key replaces the earlier value, nested keys included
SetParams(m, v) ==
    [m EXCEPT !.params = v, !.name = "absent", !.arguments = "absent",
              !.sku = "absent", !.quantity = "absent", !.region = "absent",
              !.currency = "absent", !.query = "absent", !.kusto = "absent"]

SetArguments(m, v) ==
    [m EXCEPT !.arguments = v, !.sku = "absent", !.quantity = "absent",
              !.region = "absent", !.currency = "absent", !.query = "absent",
              !.kusto = "absent"]

SetField(m, f, v) ==
    CASE f = "params" -> SetParams(m, v)
      [] f = "arguments" -> SetArguments(m, v)
      [] OTHER -> [m EXCEPT ![f] = v]

\* a string member no handler reads, "note": "...", is the token "note:'",
\* the bytes of the string and the closing quote "'"; a control character
\* inside a string is an error
IsControl(b) == b \in {"\r", "\n", "\t"}

\* the index of the quote that closes the string opened before ts[i], 0 when
\* the string is not closed or holds a control character
CloseQuote(ts, i) ==
    LET quotes == {k \in i..Len(ts) : ts[k] = "'"}
        close == IF quotes = {} THEN 0 ELSE CHOOSE k \in quotes : \A j \in quotes : k <= j
    IN  IF close = 0 \/ (\E k \in i..(close - 1) : IsControl(ts[k])) THEN 0 ELSE close

RECURSIVE ParseTokens(_, _, _, _)
\* the JSON decoder over tokens i.. of ts; level is the nesting depth, acc the
\* value built so far (kind "none" before the document starts)
ParseTokens(ts, i, level, acc) ==
    IF i > Len(ts) THEN (IF level = 0 /\ acc.kind # "none" THEN acc ELSE JsonFail)
    ELSE LET t == ts[i] IN
      IF IsSpace(t) THEN ParseTokens(ts, i + 1, level, acc)
      ELSE IF level = 0 THEN
        IF acc.kind # "none" THEN JsonFail
        ELSE IF t = "{" THEN ParseTokens(ts, i + 1, 1, Blank("object"))
        ELSE IF t = "[1]" THEN ParseTokens(ts, i + 1, 0, Blank("other"))
        ELSE JsonFail
      ELSE IF t = "}" THEN ParseTokens(ts, i + 1, level - 1, acc)
      ELSE IF level = 1 /\ IsPair(TopPairs, t) THEN
        ParseTokens(ts, i + 1, 1, SetField(acc, PairOf(TopPairs, t)[2], PairOf(TopPairs, t)[3]))
      ELSE IF level = 1 /\ t = "note:'" THEN
        (IF CloseQuote(ts, i + 1) = 0 THEN JsonFail
         ELSE ParseTokens(ts, CloseQuote(ts, i + 1) + 1, 1, acc))
      ELSE IF level = 1 /\ t = "params:{" THEN
        ParseTokens(ts, i + 1, 2, SetParams(acc, "dict"))
      ELSE IF level = 2 /\ IsPair(ParamPairs, t) THEN
        ParseTokens(ts, i + 1, 2, SetField(acc, PairOf(ParamPairs, t)[2], PairOf(ParamPairs, t)[3]))
      ELSE IF level = 2 /\ t = "arguments:{" THEN
        ParseTokens(ts, i + 1, 3, SetArguments(acc, "dict"))
      ELSE IF level = 3 /\ IsPair(ArgPairs, t) THEN
        ParseTokens(ts, i + 1, 3, SetField(acc, PairOf(ArgPairs, t)[2], PairOf(ArgPairs, t)[3]))
      ELSE JsonFail

\* json.loads(body.decode("utf-8")): JsonFail when either raises
JsonLoads(body) ==
    IF \E k \in 1..Len(body) : body[k] = "xFF" THEN JsonFail
    ELSE ParseTokens(body, 1, 0, Blank("none"))

\* the token json.dumps writes for the member f of value v, from table
TokenOf(table, f, v) ==
    IF v = "absent" THEN <<>> ELSE <<(CHOOSE p \in table : p[2] = f /\ p[3] = v)[1]>>

\* json.dumps(obj) of a decoded value: the members in the order id, method,
\* params, no whitespace between the tokens
JsonDumps(m) ==
    LET args == TokenOf(ArgPairs, "sku", m.sku) \o TokenOf(ArgPairs, "quantity", m.quantity)
                  \o TokenOf(ArgPairs, "region", m.region)
                  \o TokenOf(ArgPairs, "currency", m.currency)
                  \o TokenOf(ArgPairs, "query", m.query) \o TokenOf(ArgPairs, "kusto", m.kusto)
        arguments == IF m.arguments = "dict" THEN <<"arguments:{">> \o args \o <<"}">>
                     ELSE TokenOf(ParamPairs, "arguments", m.arguments)
        params == IF m.params = "dict"
                  THEN <<"params:{">> \o TokenOf(ParamPairs, "name", m.name) \o arguments \o <<"}">>
                  ELSE TokenOf(TopPairs, "params", m.params)
    IN  IF m.kind = "other" THEN <<"[1]">>
        ELSE <<"{">> \o TokenOf(TopPairs, "id", m.id) \o TokenOf(TopPairs, "method", m.method)
                 \o params \o <<"}">>

----------------------------------------------------------------------------
(* Responses and the dispatcher.                                            *)

Servers == {"azure-pricing-mcp", "microsoft-docs-mcp", "azure-resource-graph-mcp"}

\* the result member of a response; fields a result does not have stay at
\* their defaults
NoResult ==
    [kind |-> "none", service |-> "", status |-> "", tools |-> <<>>, count |-> 0, items |-> <<>>,
     quantity |-> 0, unit_price |-> 0, monthly_usd |-> 0]

\* _mcp_result(req_id, result)
McpResult(req_id, result) ==
    [id |-> req_id, code |-> 0, message |-> "", result |-> result]

\* variant: invalid params are reported with the reserved code
McpErrorReserved(req_id, code, message) ==
    [id |-> req_id, code |-> IF code = -32602 THEN -32603 ELSE code, message |-> message,
     result |-> NoResult]

\* _mcp_error(req_id, code, message)
McpError(req_id, code, message) ==
    [id |-> req_id, code |-> code, message |-> message, result |-> NoResult]

\* variant: `is not None` in place of truthiness, the empty string passes
TruthyNotNone(v) == v \notin {"absent", "null"}

\* Python truthiness of a decoded string value: None and "" are falsy
Truthy(v) == v \notin {"absent", "null", ""}

\* variant: `if not req_id`, which also ignores the identifier 0
IsNotificationFalsy(m) == m.id \in {"absent", "null", "0"}

\* variant: only a message without an id member is a notification
IsNotificationAbsentOnly(m) == m.id = "absent"

\* variant: the notification check is left out
IsNotificationNever(m) == FALSE

\* "Notifications: ignore.": req_id is None
IsNotification(m) == m.id \in {"absent", "null"}

\* variant: the response overtakes those written before it
McpWriteFirst(o, resp) == <<resp>> \o o

\* _mcp_write(obj) on the stdout that already holds o: header, payload, flush
McpWrite(o, resp) == Append(o, resp)

\* str(n) of an integer in a JSON text
NumberDumps(n) == IF n < 0 THEN <<"-">> \o ToDecimal(0 - n) ELSE ToDecimal(n)

\* json.dumps of one item of the upstream reply
ItemDumps(item) ==
    <<"{">> \o (CASE item.field = "number" -> <<"retailPrice:">> \o NumberDumps(item.retailPrice)
                  [] item.field = "null" -> <<"retailPrice:null">>
                  [] OTHER -> <<>>)
           \o <<"}">>

RECURSIVE ItemsDumps(_)
ItemsDumps(items) ==
    IF items = <<>> THEN <<>> ELSE ItemDumps(items[1]) \o ItemsDumps(Tail(items))

\* json.dumps of a result: one byte string per member name or string value,
\* numbers digit by digit
ResultDumps(r) ==
    CASE r.kind = "initialize" ->
           <<"protocolVersion", "serverInfo:{", "name:", r.service, "}", "capabilities:{", "}">>
      [] r.kind = "ping" -> <<"status:", r.status, "service:", r.service>>
      [] r.kind = "tools/list" -> <<"tools:[">> \o r.tools \o <<"]">>
      [] r.kind = "price_search" ->
           <<"status:", r.status, "tool:", r.kind, "sku", "count:">> \o NumberDumps(r.count)
              \o <<"items:[">> \o ItemsDumps(r.items) \o <<"]">>
      [] r.kind = "cost_estimate" /\ r.status = "ok" ->
           <<"status:", r.status, "tool:", r.kind, "sku", "quantity:">>
              \o NumberDumps(r.quantity)
              \o <<"unit_price:">> \o NumberDumps(r.unit_price)
              \o <<"monthly_usd:">> \o NumberDumps(r.monthly_usd)
      [] r.kind = "cost_estimate" -> <<"status:", r.status, "tool:", r.kind, "sku">>
      [] OTHER -> <<"status:", r.status, "tool:", r.kind>>

\* json.dumps(obj).encode("utf-8") of a response
ResponseDumps(resp) ==
    <<"{", "jsonrpc:2.0", "id:", resp.id>>
        \o (IF resp.code = 0
            THEN <<"result:{">> \o ResultDumps(resp.result) \o <<"}">>
            ELSE <<"error:{", "code:">> \o NumberDumps(resp.code)
                    \o <<"message:", resp.message, "}">>)
        \o <<"}">>

\* variant: a line feed is written after the payload
StdoutWriteLine(bytes, resp) == bytes \o McpFrame(ResponseDumps(resp)) \o <<"\n">>

\* _mcp_write(obj) on the bytes already written: write(header), write(payload)
StdoutWrite(bytes, resp) == bytes \o McpFrame(ResponseDumps(resp))

\* the outcomes of json.dumps(obj) in _mcp_write, FALSE for returning and TRUE
\* for raising RecursionError.  json.loads parsed the identifier called from
\* the read loop; json.dumps runs two frames deeper, from handle and
\* _mcp_write, and for an identifier nested to just below the limit it is the
\* one that exceeds it.  The except clause of handle then calls _mcp_write
\* with the same identifier, which raises again, out of handle.
DumpsRaises(resp) == IF resp.id = "deep" THEN BOOLEAN ELSE {FALSE}

\* what one call of handle does before it returns or blocks in fetch_prices
Silent == [do |-> "nothing", resp |-> McpError("", 0, ""), tool |-> "", quantity |-> 0]

Write(resp) == [do |-> "write", resp |-> resp, tool |-> "", quantity |-> 0]

CallTool(tool, quantity) ==
    [do |-> "fetch", resp |-> McpError("", 0, ""), tool |-> tool, quantity |-> quantity]

\* an exception leaves handle uncaught
Escapes == [do |-> "raise", resp |-> McpError("", 0, ""), tool |-> "", quantity |-> 0]

\* variant: the failure is reported under the code reserved for internal errors
ServerErrorInternal(req_id, exc) == McpError(req_id, -32603, exc)

\* _mcp_error(req_id, -32000, f"Server error: {exc}"): the message is the
\* constant prefix and the text of the exception, modelled by that text
ServerError(req_id, exc) == McpError(req_id, -32000, exc)

\* `except Exception as exc`: an exception raised inside the try block
Caught(req_id, exc) == Write(ServerError(req_id, exc))

\* variant: the isinstance check is left out
IsDictAlways(m) == TRUE

\* isinstance(msg, dict)
IsDict(m) == m.kind = "object"

\* AZURE_PRICING_REGION and AZURE_PRICING_CURRENCY are not set: os.getenv
\* returns None
DEFAULT_REGION == "null"

DEFAULT_CURRENCY == "null"

\* v or d
Or(v, d) == IF Truthy(v) THEN v ELSE d

\* str.strip() on the strings of the model
Strip(v) == CASE v = " B2s " -> "B2s" [] v = " " -> "" [] OTHER -> v

\* _odata_escape: every single quote is doubled
OdataEscape(v) == CASE v = "O'N" -> "O''N" [] OTHER -> v

\* one clause of the filter: what it tests and the text between its quotes
Clause(test, literal) == [test |-> test, literal |-> literal]

\* variant: the currency clause is appended before the region clause
FilterExprCurrencyFirst(sku, region, currency) ==
    <<Clause("contains(skuName", OdataEscape(Strip(sku)))>>
        \o (IF Truthy(currency) /\ OdataEscape(Strip(currency)) # ""
            THEN <<Clause("currencyCode eq", OdataEscape(Strip(currency)))>> ELSE <<>>)
        \o (IF Truthy(region) /\ OdataEscape(Strip(region)) # ""
            THEN <<Clause("armRegionName eq", OdataEscape(Strip(region)))>> ELSE <<>>)

\* price_search: filter_expr, the clauses that " and ".join(filters) joins,
\* in their order
FilterExpr(sku, region, currency) ==
    <<Clause("contains(skuName", OdataEscape(Strip(sku)))>>
        \o (IF Truthy(region) /\ OdataEscape(Strip(region)) # ""
            THEN <<Clause("armRegionName eq", OdataEscape(Strip(region)))>> ELSE <<>>)
        \o (IF Truthy(currency) /\ OdataEscape(Strip(currency)) # ""
            THEN <<Clause("currencyCode eq", OdataEscape(Strip(currency)))>> ELSE <<>>)

\* int(qty) of the quantity argument, default 1; -1 when int() raises
QtyInt(q) == CASE q = "absent" -> 1 [] q = "2" -> 2 [] q = "0" -> 0 [] OTHER -> -1

\* price_search up to its call of fetch_prices: the sku checks
PriceSearchEnter(req_id, tool, sku, quantity) ==
    IF Strip(sku) = "" THEN Caught(req_id, "sku must be a non-empty string")
    ELSE CallTool(tool, quantity)

\* variant: the tools are listed only once initialize has been handled
McpToolsListOnceInitialized(srv) ==
    IF \E i \in 1..Len(handled) : handled[i].method = "initialize"
    THEN CASE srv = "azure-pricing-mcp" -> <<"price_search", "cost_estimate">>
           [] srv = "microsoft-docs-mcp" -> <<"search">>
           [] srv = "azure-resource-graph-mcp" -> <<"query">>
    ELSE <<>>

\* _mcp_tools_list(): the names of the tools listed, in their order
McpToolsList(srv) ==
    CASE srv = "azure-pricing-mcp" -> <<"price_search", "cost_estimate">>
      [] srv = "microsoft-docs-mcp" -> <<"search">>
      [] srv = "azure-resource-graph-mcp" -> <<"query">>

\* the tool names tools/call routes to a tool, per server
RegisteredTools(srv) ==
    CASE srv = "azure-pricing-mcp" -> {"price_search", "cost_estimate"}
      [] srv = "microsoft-docs-mcp" -> {"search"}
      [] srv = "azure-resource-graph-mcp" -> {"query"}

\* handle, method tools/call, pricing server
PricingToolsCall(m) ==
    IF m.params = "other" \/ m.arguments = "other"
    THEN Caught(m.id, "no attribute get")
    ELSE IF m.name = "price_search" THEN
        IF ~Truthy(m.sku)
        THEN Write(McpError(m.id, -32602, "Missing required argument: sku"))
        ELSE PriceSearchEnter(m.id, "price_search", m.sku, 0)
    ELSE IF m.name = "cost_estimate" THEN
        IF ~Truthy(m.sku)
        THEN Write(McpError(m.id, -32602, "Missing required argument: sku"))
        ELSE IF QtyInt(m.quantity) = -1
        THEN Write(McpError(m.id, -32602, "quantity must be an integer"))
        ELSE PriceSearchEnter(m.id, "cost_estimate", m.sku, QtyInt(m.quantity))
    ELSE Write(McpError(m.id, -32601, "Unknown tool"))

\* handle, method tools/call, docs and resource-graph servers
StubToolsCall(srv, m) ==
    LET tool == IF srv = "microsoft-docs-mcp" THEN "search" ELSE "query"
        arg == IF srv = "microsoft-docs-mcp" THEN m.query
               ELSE IF Truthy(m.kusto) THEN m.kusto ELSE m.query
    IN  IF m.params = "other"
        THEN Caught(m.id, "no attribute get")
        ELSE IF m.name # tool THEN Write(McpError(m.id, -32601, "Unknown tool"))
        ELSE IF m.arguments = "other"
        THEN Caught(m.id, "no attribute get")
        ELSE IF ~Truthy(arg)
        THEN Write(McpError(m.id, -32602, "Missing required argument"))
        ELSE Write(McpResult(m.id, [NoResult EXCEPT !.kind = tool, !.status = "ok"]))

\* variant: a request without a known method is called an invalid request
UnknownMethodInvalid(m) == Write(McpError(m.id, -32600, "Invalid request"))

\* the last statement of the try block: no method matched
UnknownMethod(m) == Write(McpError(m.id, -32601, "Unknown method"))

\* handle(msg) of server srv
Handle(srv, m) ==
    IF ~IsDict(m) THEN Silent
    ELSE IF m.kind # "object" THEN Escapes   \* msg.get on a value that has no get
    ELSE IF IsNotification(m) THEN Silent
    ELSE IF m.method = "initialize"
    THEN Write(McpResult(m.id, [NoResult EXCEPT !.kind = "initialize", !.service = srv]))
    ELSE IF m.method = "ping"
    THEN Write(McpResult(m.id, [NoResult EXCEPT !.kind = "ping", !.service = srv, !.status = "ok"]))
    ELSE IF m.method = "tools/list"
    THEN Write(McpResult(m.id, [NoResult EXCEPT !.kind = "tools/list", !.service = srv,
                                                 !.tools = McpToolsList(srv)]))
    ELSE IF m.method = "tools/call"
    THEN (IF srv = "azure-pricing-mcp" THEN PricingToolsCall(m) ELSE StubToolsCall(srv, m))
    ELSE UnknownMethod(m)

----------------------------------------------------------------------------
(* fetch_prices.                                                            *)

\* an upstream reply body once resp.json() has parsed it: a dict ("dict") with
\* its Items list, or a JSON value that is no dict ("other").  An item is a
\* JSON object; of its members the model keeps retailPrice, a number, null
\* or missing
NoReply == [shape |-> "none", items |-> <<>>]

Item(price) == [field |-> "number", retailPrice |-> price]

NoPrice == [field |-> "absent", retailPrice |-> 0]

NullPrice == [field |-> "null", retailPrice |-> 0]

\* replies of n items priced 1..n, and short ones whose first item has the
\* price 0, null or none, or whose later items differ
Replies ==
    {[shape |-> "dict", items |-> [i \in 1..n |-> Item(i)]] : n \in 0..MaxItems}
        \cup {[shape |-> "dict", items |-> <<first>> \o rest] :
                  first \in {Item(0), NoPrice, NullPrice, Item(3)},
                  rest \in {<<>>, <<Item(7)>>}}
        \cup {[shape |-> "dict", items |-> <<Item(1), NoPrice>>]}
        \cup {[shape |-> "other", items |-> <<>>]}

NotReturned == [kind |-> "none", exc |-> "", data |-> NoReply]

Returned(data) == [kind |-> "value", exc |-> "", data |-> data]

Raised(exc) == [kind |-> "raise", exc |-> exc, data |-> NoReply]

Idle == [id |-> "", tool |-> "", quantity |-> 0, filter_expr |-> <<>>]

RECURSIVE Pow2(_)
Pow2(n) == IF n = 0 THEN 1 ELSE 2 * Pow2(n - 1)

\* variant: the exponent runs two ahead of the attempt index
SleepForAhead(backoff, a) == backoff * Pow2(a + 2)

\* variant: the same delay before every retry
SleepForFlat(backoff, a) == backoff

\* the argument of time.sleep: BACKOFF * (2 ** attempt)
SleepFor(backoff, a) == backoff * Pow2(a)

\* variant: the attempt before the last is taken for the last
IsLastAttemptEarly(a, retries) == a = retries - 2

\* attempt == RETRIES - 1
IsLastAttempt(a, retries) == a = retries - 1

\* variant: an empty reply is returned when the range is exhausted with no error
LoopHeadReturnsEmpty(a, err) ==
    /\ attempt' = a
    /\ IF a < RETRIES
       THEN pc' = "fetch" /\ fetchRet' = NotReturned
       ELSE /\ pc' = "ret"
            /\ fetchRet' = IF err # "none" THEN Raised(err)
                           ELSE Returned([shape |-> "dict", items |-> <<>>])

\* the head of `for attempt in range(RETRIES)` taking index a, and the code
\* after the loop when the range is exhausted
LoopHead(a, err) ==
    /\ attempt' = a
    /\ IF a < RETRIES
       THEN pc' = "fetch" /\ fetchRet' = NotReturned
       ELSE /\ pc' = "ret"
            /\ fetchRet' = Raised(IF err # "none" THEN err ELSE "Failed to fetch pricing data")

\* entry of fetch_prices
FetchEnter ==
    /\ calls' = 0
    /\ sleeps' = <<>>
    /\ outcomes' = <<>>
    /\ last_error' = "none"
    /\ LoopHead(0, "none")

\* variant: the first failure is raised at once, without a retry
ExceptGivesUp(exc) ==
    /\ last_error' = exc
    /\ pc' = "ret"
    /\ fetchRet' = Raised(exc)

\* the except clause of fetch_prices, entered with exception exc
Except(exc) ==
    /\ last_error' = exc
    /\ IF IsLastAttempt(attempt, RETRIES)
       THEN pc' = "ret" /\ fetchRet' = Raised(exc)
       ELSE pc' = "sleep" /\ UNCHANGED fetchRet

loopVars == <<stream, pos, buffer, out, stdout, upstream, handled, cur, server, frames, partial>>

Outcome(kind, data) == [kind |-> kind, data |-> data]

config == <<RETRIES, BACKOFF, jsonErrIsRequestException>>

\* variant: the parsed body is kept but the loop goes on to the next attempt
AttemptOkGoesOn ==
    /\ pc = "fetch"
    /\ \E reply \in Replies :
         /\ calls' = calls + 1
         /\ outcomes' = Append(outcomes, Outcome("ok", reply))
         /\ fetchRet' = Returned(reply)
    /\ IF attempt = RETRIES - 1
       THEN pc' = "ret" /\ UNCHANGED attempt
       ELSE pc' = "fetch" /\ attempt' = attempt + 1
    /\ UNCHANGED <<loopVars, config, sleeps, last_error>>

\* requests.get answers 2xx with a JSON body: return resp.json()
AttemptOk ==
    /\ pc = "fetch"
    /\ \E reply \in Replies :
         /\ calls' = calls + 1
         /\ outcomes' = Append(outcomes, Outcome("ok", reply))
         /\ fetchRet' = Returned(reply)
         /\ pc' = "ret"
    /\ UNCHANGED <<loopVars, config, attempt, sleeps, last_error>>

\* requests.get or raise_for_status raises: connection error, timeout, non-2xx
AttemptTransportError ==
    /\ pc = "fetch"
    /\ calls' = calls + 1
    /\ outcomes' = Append(outcomes, Outcome("transport", NoReply))
    /\ Except("transport")
    /\ UNCHANGED <<loopVars, config, attempt, sleeps>>

\* 2xx with a body that is not JSON: resp.json() raises.  requests >= 2.27
\* raises requests.JSONDecodeError, a RequestException, which the except
\* clause catches; older versions raise a plain ValueError, which it does not
AttemptBadJson ==
    /\ pc = "fetch"
    /\ calls' = calls + 1
    /\ outcomes' = Append(outcomes, Outcome("badjson", NoReply))
    /\ IF jsonErrIsRequestException
       THEN Except("badjson")
       ELSE pc' = "ret" /\ fetchRet' = Raised("badjson") /\ UNCHANGED last_error
    /\ UNCHANGED <<loopVars, config, attempt, sleeps>>

\* time.sleep(BACKOFF * (2 ** attempt)) returns and the loop goes on
BackoffSleep ==
    /\ pc = "sleep"
    /\ sleeps' = Append(sleeps, SleepFor(BACKOFF, attempt))
    /\ LoopHead(attempt + 1, last_error)
    /\ UNCHANGED <<loopVars, config, calls, last_error, outcomes>>

----------------------------------------------------------------------------
(* The tools, from the return of fetch_prices on.                           *)

ItemLimit == 5

HoursPerMonth == 730

\* variant: count is taken after the cut to five
PriceSearchResultCountsShown(data) ==
    [NoResult EXCEPT !.kind = "price_search", !.status = "ok",
                     !.count = Min({ItemLimit, Len(data.items)}),
                     !.items = SubSeq(data.items, 1, Min({ItemLimit, Len(data.items)}))]

\* price_search: the dict built from data
PriceSearchResult(data) ==
    [NoResult EXCEPT !.kind = "price_search", !.status = "ok",
                     !.count = Len(data.items),
                     !.items = SubSeq(data.items, 1, Min({ItemLimit, Len(data.items)}))]

\* items[0].get("retailPrice", 0.0) or 0.0
RetailPrice(item) == IF item.field = "number" THEN item.retailPrice ELSE 0

\* variant: `if not items or not quantity`
CostEstimateResultZero(search, quantity) ==
    IF search.items = <<>> \/ quantity = 0
    THEN [NoResult EXCEPT !.kind = "cost_estimate", !.status = "not-found"]
    ELSE [NoResult EXCEPT !.kind = "cost_estimate", !.status = "ok",
                          !.quantity = quantity,
                          !.unit_price = RetailPrice(search.items[1]),
                          !.monthly_usd = RetailPrice(search.items[1]) * quantity * HoursPerMonth]

\* variant: the price is taken from the last item, items[-1]
CostEstimateResultLast(search, quantity) ==
    IF search.items = <<>>
    THEN [NoResult EXCEPT !.kind = "cost_estimate", !.status = "not-found"]
    ELSE LET price == RetailPrice(search.items[Len(search.items)])
         IN  [NoResult EXCEPT !.kind = "cost_estimate", !.status = "ok",
                              !.quantity = quantity,
                              !.unit_price = price,
                              !.monthly_usd = price * quantity * HoursPerMonth]

\* cost_estimate: the dict built from the result of price_search
CostEstimateResult(search, quantity) ==
    IF search.items = <<>>
    THEN [NoResult EXCEPT !.kind = "cost_estimate", !.status = "not-found"]
    ELSE LET price == RetailPrice(search.items[1])
         IN  [NoResult EXCEPT !.kind = "cost_estimate", !.status = "ok",
                              !.quantity = quantity,
                              !.unit_price = price,
                              !.monthly_usd = price * quantity * HoursPerMonth]

\* variant: the quantity of cost_estimate is looked at once the prices are in
ToolResponseChecksQuantity(call, ret) ==
    IF call.tool = "cost_estimate" /\ call.quantity = 0
    THEN McpError(call.id, -32602, "quantity must be positive")
    ELSE IF ret.kind = "raise" THEN ServerError(call.id, ret.exc)
    ELSE IF ret.data.shape # "dict"
    THEN ServerError(call.id, "no attribute get")
    ELSE IF call.tool = "price_search"
    THEN McpResult(call.id, PriceSearchResult(ret.data))
    ELSE McpResult(call.id, CostEstimateResult(PriceSearchResult(ret.data), call.quantity))

\* what handle writes for the tools/call `call` once fetch_prices ended as ret
ToolResponse(call, ret) ==
    IF ret.kind = "raise" THEN ServerError(call.id, ret.exc)
    ELSE IF ret.data.shape # "dict"
    THEN ServerError(call.id, "no attribute get")
    ELSE IF call.tool = "price_search"
    THEN McpResult(call.id, PriceSearchResult(ret.data))
    ELSE McpResult(call.id, CostEstimateResult(PriceSearchResult(ret.data), call.quantity))

----------------------------------------------------------------------------
(* The read loop of run_mcp_stdio.                                          *)

ChunkSize == 4096

\* variant: the whole buffer is thrown away with the malformed header block
SkipAll(buf, header_end) == <<>>

\* variant: one byte is skipped
SkipOneByte(buf, header_end) == Drop(buf, 1)

\* variant: the header block goes and its separator stays
SkipHeaderOnly(buf, header_end) == Drop(buf, header_end)

\* buffer[header_end + 4 :], the buffer after a malformed header block
SkipTo(buf, header_end) == Drop(buf, header_end + 4)

\* variant: a body that has just arrived in full is still waited for
BodyIncompleteOrExact(buf, body_end) == Len(buf) <= body_end

\* len(buffer) < body_end
BodyIncomplete(buf, body_end) == Len(buf) < body_end

\* variant: the body is all that follows the separator
BodySliceToEnd(buf, body_start, body_end) == SubSeq(buf, body_start + 1, Len(buf))

\* buffer[body_start:body_end]
BodySlice(buf, body_start, body_end) == SubSeq(buf, body_start + 1, body_end)

\* one pass of the inner `while True` over buf: wait for more bytes, skip a
\* header block without Content-Length, cut one frame off the front, or raise
\* from int()
Decode(buf) ==
    LET header_end == Find(buf, Separator) IN
    IF header_end = -1 THEN [status |-> "wait", rest |-> buf, body |-> <<>>]
    ELSE
      LET content_length == HeaderMatch(Utf8Ignore(SubSeq(buf, 1, header_end)))
          body_start == header_end + 4
          body_end == body_start + content_length
      IN  IF content_length = -2
          THEN [status |-> "raise", rest |-> buf, body |-> <<>>]
          ELSE IF content_length = -1
          THEN [status |-> "skip", rest |-> SkipTo(buf, header_end), body |-> <<>>]
          ELSE IF BodyIncomplete(buf, body_end)
          THEN [status |-> "wait", rest |-> buf, body |-> <<>>]
          ELSE [status |-> "frame", rest |-> Drop(buf, body_end),
                body |-> BodySlice(buf, body_start, body_end)]

fetchVars == <<attempt, calls, sleeps, last_error, outcomes, fetchRet>>

\* variant: buffer = chunk, the bytes of earlier reads are lost
ExtendOverwrite(buf, chunk) == chunk

\* buffer += chunk
Extend(buf, chunk) == buf \o chunk

\* read1(4096) returns n > 0 of the bytes the client has written
Read ==
    /\ pc = "read"
    /\ \E n \in 1..(Len(stream) - pos) :
         /\ n <= ChunkSize
         /\ buffer' = Extend(buffer, SubSeq(stream, pos + 1, pos + n))
         /\ pos' = pos + n
         /\ partial' = (partial \/ n < Len(stream) - pos)
    /\ pc' = "decode"
    /\ UNCHANGED <<stream, out, stdout, upstream, handled, cur, server, frames, config, fetchVars>>

\* the read returns b"": end of stream, run_mcp_stdio returns
ReadEOF ==
    /\ pc = "read"
    /\ pos = Len(stream)
    /\ pc' = "done"
    /\ UNCHANGED <<stream, pos, buffer, out, stdout, upstream, handled, cur, server, frames, partial, config,
                   fetchVars>>

\* variant: what is in the buffer is given up when the loop goes back to read
DecodeWaitClears ==
    /\ pc = "decode"
    /\ Decode(buffer).status = "wait"
    /\ pc' = "read"
    /\ buffer' = <<>>
    /\ UNCHANGED <<stream, pos, out, stdout, upstream, handled, cur, server, frames, partial,
                   config, fetchVars>>

\* no separator yet, or the declared body has not fully arrived: break
DecodeWait ==
    /\ pc = "decode"
    /\ Decode(buffer).status = "wait"
    /\ pc' = "read"
    /\ UNCHANGED <<stream, pos, buffer, out, stdout, upstream, handled, cur, server, frames, partial, config,
                   fetchVars>>

\* "Skip malformed header block."
SkipHeader ==
    /\ pc = "decode"
    /\ Decode(buffer).status = "skip"
    /\ buffer' = Decode(buffer).rest
    /\ UNCHANGED <<stream, pos, pc, out, stdout, upstream, handled, cur, server, frames, partial, config,
                   fetchVars>>

\* variant: a body that does not parse is answered with a parse error
DropFrameAnswers ==
    /\ pc = "decode"
    /\ Decode(buffer).status = "frame"
    /\ JsonLoads(Decode(buffer).body) = JsonFail
    /\ buffer' = Decode(buffer).rest
    /\ frames' = frames + 1
    /\ out' = McpWrite(out, McpError("null", -32700, "Parse error"))
    /\ stdout' = StdoutWrite(stdout, McpError("null", -32700, "Parse error"))
    /\ upstream' = Append(upstream, NotReturned)
    /\ UNCHANGED <<stream, pos, pc, handled, cur, server, partial, config, fetchVars>>

\* json.loads(body.decode("utf-8")) raises: continue
DropFrame ==
    /\ pc = "decode"
    /\ Decode(buffer).status = "frame"
    /\ JsonLoads(Decode(buffer).body) = JsonFail
    /\ buffer' = Decode(buffer).rest
    /\ frames' = frames + 1
    /\ UNCHANGED <<stream, pos, pc, out, stdout, upstream, handled, cur, server, partial, config, fetchVars>>

\* handle(msg): returns silently, writes one response, or enters fetch_prices;
\* an exception that leaves handle leaves run_mcp_stdio too and ends the process
Dispatch ==
    /\ pc = "decode"
    /\ Decode(buffer).status = "frame"
    /\ LET msg == JsonLoads(Decode(buffer).body)
           step == Handle(server, msg)
       IN  /\ msg # JsonFail
           /\ buffer' = Decode(buffer).rest
           /\ frames' = frames + 1
           /\ handled' = Append(handled, msg)
           /\ CASE step.do = "nothing" ->
                     UNCHANGED <<pc, out, stdout, upstream, cur, fetchVars>>
                [] step.do = "write" ->
                     \E raised \in DumpsRaises(step.resp) :
                       /\ IF raised
                          THEN pc' = "crashed" /\ UNCHANGED <<out, stdout, upstream>>
                          ELSE /\ out' = McpWrite(out, step.resp)
                               /\ stdout' = StdoutWrite(stdout, step.resp)
                               /\ upstream' = Append(upstream, NotReturned)
                               /\ UNCHANGED pc
                       /\ UNCHANGED <<cur, fetchVars>>
                [] step.do = "fetch" ->
                     /\ cur' = [id |-> msg.id, tool |-> step.tool, quantity |-> step.quantity,
                                filter_expr |-> FilterExpr(msg.sku,
                                                           Or(msg.region, DEFAULT_REGION),
                                                           Or(msg.currency, DEFAULT_CURRENCY))]
                     /\ FetchEnter
                     /\ UNCHANGED <<out, stdout, upstream>>
                [] step.do = "raise" ->
                     pc' = "crashed" /\ UNCHANGED <<out, stdout, upstream, cur, fetchVars>>
    /\ UNCHANGED <<stream, pos, server, partial, config>>

\* fetch_prices has returned or raised: the tool finishes and handle writes
HandlerReturn ==
    /\ pc = "ret"
    /\ cur # Idle
    /\ \E raised \in DumpsRaises(ToolResponse(cur, fetchRet)) :
         IF raised
         THEN pc' = "crashed" /\ UNCHANGED <<out, stdout, upstream>>
         ELSE /\ out' = McpWrite(out, ToolResponse(cur, fetchRet))
              /\ stdout' = StdoutWrite(stdout, ToolResponse(cur, fetchRet))
              /\ upstream' = Append(upstream, fetchRet)
              /\ pc' = "decode"
    /\ cur' = Idle
    /\ UNCHANGED <<stream, pos, buffer, handled, server, frames, partial, config, fetchVars>>

\* int(match.group(1)) raises ValueError outside any try block: the exception
\* leaves run_mcp_stdio and the process ends
DecodeRaises ==
    /\ pc = "decode"
    /\ Decode(buffer).status = "raise"
    /\ pc' = "crashed"
    /\ UNCHANGED <<stream, pos, buffer, out, stdout, upstream, handled, cur, server, frames, partial, config,
                   fetchVars>>

----------------------------------------------------------------------------
(* The inputs tried: what the client writes, and the configuration.         *)

Obj(fields) == <<"{">> \o fields \o <<"}">>

Params(fields) == <<"params:{">> \o fields \o <<"}">>

Arguments(fields) == <<"arguments:{">> \o fields \o <<"}">>

\* a frame as a client may write it: lower-case header name, no space
AltFrame(payload) ==
    <<"c", "o", "n", "t", "e", "n", "t", "-", "l", "e", "n", "g", "t", "h", ":">>
        \o ToDecimal(Len(payload)) \o Separator \o payload

\* the argument objects tried in a tools/call
ArgumentChoices ==
    {<<>>, <<"arguments:null">>, <<"arguments:[1]">>, Arguments(<<>>),
     Arguments(<<"sku:B2s">>), Arguments(<<"sku:">>), Arguments(<<"sku: ">>),
     Arguments(<<"sku:B2s", "quantity:2">>), Arguments(<<"sku:B2s", "quantity:x">>),
     Arguments(<<"sku:B2s", "quantity:null">>), Arguments(<<"quantity:x">>),
     Arguments(<<"sku:B2s", "region:eastus", "currency:USD">>),
     Arguments(<<"sku:B2s", "quantity:0", "region:eastus">>),
     Arguments(<<"sku: B2s ", "region: ", "currency:USD">>),
     Arguments(<<"sku:O'N", "region:eastus">>),
     Arguments(<<"sku:B2s", "region:null", "currency: ">>),
     Arguments(<<"quantity:2">>), Arguments(<<"query:q">>), Arguments(<<"kusto:k">>)}

NameChoices ==
    {<<>>, <<"name:price_search">>, <<"name:cost_estimate">>, <<"name:search">>,
     <<"name:query">>, <<"name:nope">>}

\* the params members tried in a tools/call
ParamChoices ==
    {<<>>, <<"params:null">>, <<"params:[1]">>}
        \cup {Params(n \o a) : n \in NameChoices, a \in ArgumentChoices}

MethodChoices ==
    {<<>>, <<"method:initialize">>, <<"method:ping">>, <<"method:tools/list">>,
     <<"method:nope">>, <<"method:null">>}

\* request bodies with id 1
CallBodies == {Obj(<<"id:1", "method:tools/call">> \o p) : p \in ParamChoices}

PlainBodies == {Obj(<<"id:1">> \o m) : m \in MethodChoices}

\* a valid price_search call, as a request with identifier id and as a notification
PriceSearchCall(id) ==
    Obj(id \o <<"method:tools/call">> \o Params(<<"name:price_search">> \o Arguments(<<"sku:B2s">>)))

\* notifications (no id, or id null), an id that is falsy but not null, a
\* body with JSON whitespace that spells the separator, a duplicate key
OddBodies ==
    {Obj(i \o m) : i \in {<<>>, <<"id:null">>}, m \in MethodChoices \ {<<>>}}
        \cup {PriceSearchCall(<<>>), PriceSearchCall(<<"id:null">>),
              Obj(<<"id:0", "method:ping">>),
              Obj(<<"\r", "\n", "\r", "\n", "id:1", "method:ping">>),
              Obj(<<"id:1", "method:nope", "method:ping">>),
              <<"[1]">>}

\* the bytes of the header text Content-Length: 2
LengthText ==
    <<"C", "o", "n", "t", "e", "n", "t", "-", "L", "e", "n", "g", "t", "h", ":", " ", "2">>

\* requests whose body holds the separator as JSON whitespace, the text of a
\* Content-Length header inside a string, or that text and then the separator
HeaderLikeBodies ==
    {Obj(<<"\r", "\n", "\r", "\n", "id:1", "method:ping">>),
     Obj(<<"id:1", "method:ping", "note:'">> \o LengthText \o <<"'">>),
     Obj(<<"id:1", "method:ping", "note:'">> \o LengthText \o <<"'">> \o Separator)}

\* bodies json.loads rejects
BadBodies == {<<>>, <<"{">>, <<"{", "id:1", "xFF", "}">>, <<"{", "}", "}">>}

Bodies == CallBodies \cup PlainBodies \cup OddBodies \cup HeaderLikeBodies \cup BadBodies

\* the JSON values those bodies denote
Messages == {JsonLoads(b) : b \in Bodies} \ {JsonFail}

\* header blocks without a usable Content-Length, each with its separator
BadHeaders ==
    {Separator,
     <<"X", ":", "1">> \o Separator,
     <<"C", "o", "n", "t", "e", "n", "t", "-", "L", "e", "n", "g", "t", "h", ":", " ", "x">>
        \o Separator}

\* what may follow such a header block as the body of that malformed frame
BadFrameBodies ==
    {<<>>, Obj(<<"id:1", "method:ping">>),
     <<"C", "o", "n", "t", "e", "n", "t", "-", "L", "e", "n", "g", "t", "h", ":", "9">>,
     Obj(<<"\r", "\n", "\r", "\n">>)}

BadFrames == {h \o b : h \in BadHeaders, b \in BadFrameBodies}

\* the second frame of a two-frame stream
SecondBodies ==
    {Obj(<<"id:2", "method:ping">>), PriceSearchCall(<<"id:2">>),
     Obj(<<"method:ping">>)}

\* the first frame of a two-frame stream
FirstBodies ==
    {Obj(<<"id:1", "method:ping">>), Obj(<<"method:ping">>), PriceSearchCall(<<"id:1">>),
     Obj(<<"id:1", "method:tools/call">> \o Params(<<"name:nope">>)),
     Obj(<<"id:1", "method:tools/call", "params:[1]">>),
     Obj(<<"id:1">>), <<"[1]">>}
        \cup BadBodies

\* a frame the client did not finish before it closed the stream: the last
\* byte of the body is missing, or the whole body
TruncatedFrames ==
    LET f == McpFrame(Obj(<<"id:2", "method:ping">>))
    IN  {SubSeq(f, 1, Len(f) - 1), SubSeq(f, 1, Find(f, Separator) + 4)}

\* requests sent twice in one stream
RepeatBodies ==
    {Obj(<<"id:1", "method:tools/list">>), Obj(<<"id:1", "method:ping">>),
     Obj(<<"id:1", "method:initialize">>), PriceSearchCall(<<"id:1">>),
     Obj(<<"id:1", "method:tools/call">> \o Params(<<"name:nope">>)),
     Obj(<<"id:1", "method:tools/call">> \o Params(<<"name:search">> \o Arguments(<<"query:q">>))),
     Obj(<<"id:1", "method:tools/call">> \o Params(<<"name:query">> \o Arguments(<<"kusto:k">>)))}

\* what is sent between the two
BetweenBodies ==
    {Obj(<<"id:2", "method:initialize">>), Obj(<<"method:initialize">>), <<"{">>}

Streams ==
    {McpFrame(b) : b \in Bodies}
        \cup {McpFrame(b) \o McpFrame(a) \o McpFrame(b) : b \in RepeatBodies, a \in BetweenBodies}
        \cup {McpFrame(JsonDumps(x)) : x \in Messages}
        \cup {AltFrame(b) : b \in FirstBodies}
        \cup {McpFrame(a) \o McpFrame(b) : a \in FirstBodies, b \in SecondBodies}
        \cup {f \o McpFrame(b) : f \in BadFrames, b \in SecondBodies}
        \cup TruncatedFrames
        \cup {McpFrame(a) \o t : a \in {Obj(<<"id:1", "method:ping">>), <<"{">>},
                                  t \in TruncatedFrames}
        \cup {McpFrame(a) \o McpFrame(Obj(<<"id:2", "method:ping">>)) : a \in HeaderLikeBodies}
        \cup {<<"x", "\r", "\n">>}

DefaultRetries == 3

DefaultBackoff == 500

Backoffs == {DefaultBackoff, 250}

\* run_mcp_stdio starts: buffer = b"", nothing read or written yet
Started ==
    /\ pos = 0
    /\ buffer = <<>>
    /\ pc = "read"
    /\ out = <<>>
    /\ stdout = <<>>
    /\ upstream = <<>>
    /\ handled = <<>>
    /\ cur = Idle
    /\ \/ /\ server = "azure-pricing-mcp"
          /\ RETRIES \in 0..MaxServerRetries
          /\ jsonErrIsRequestException \in BOOLEAN
       \/ /\ server \in Servers \ {"azure-pricing-mcp"}
          /\ RETRIES = DefaultRetries
          /\ jsonErrIsRequestException = TRUE
    /\ BACKOFF = DefaultBackoff
    /\ attempt = 0
    /\ calls = 0
    /\ sleeps = <<>>
    /\ last_error = "none"
    /\ outcomes = <<>>
    /\ frames = 0
    /\ partial = FALSE
    /\ fetchRet = NotReturned

Init == stream \in Streams /\ Started

Next ==
    \/ Read
    \/ ReadEOF
    \/ DecodeWait
    \/ SkipHeader
    \/ DropFrame
    \/ Dispatch
    \/ AttemptOk
    \/ AttemptTransportError
    \/ AttemptBadJson
    \/ BackoffSleep
    \/ HandlerReturn

Spec == Init /\ [][Next]_vars

----------------------------------------------------------------------------
(* The servers fed input that reaches the limits of the interpreter, next   *)
(* to ordinary input.                                                       *)

\* a Content-Length of more digits than int() converts, with its separator
LongHeader ==
    <<"C", "o", "n", "t", "e", "n", "t", "-", "L", "e", "n", "g", "t", "h", ":", " ", DigitRun>>
        \o Separator

\* requests whose identifier is nested to just below the recursion limit
DeepBodies ==
    {Obj(<<"id:[[..]]", "method:ping">>), Obj(<<"id:[[..]]", "method:nope">>),
     PriceSearchCall(<<"id:[[..]]">>)}

LimitStreams ==
    {LongHeader \o McpFrame(b) : b \in SecondBodies}
        \cup {McpFrame(a) \o McpFrame(b) : a \in DeepBodies, b \in SecondBodies}
        \cup {McpFrame(a) \o McpFrame(b) :
                 a \in {Obj(<<"id:1", "method:ping">>), PriceSearchCall(<<"id:1">>), <<"{">>},
                 b \in SecondBodies}
        \cup {f \o McpFrame(b) : f \in BadFrames, b \in {Obj(<<"id:2", "method:ping">>)}}
        \cup TruncatedFrames

LimitInit == stream \in LimitStreams /\ Started

LimitNext ==
    \/ Next
    \/ DecodeRaises

LimitSpec == LimitInit /\ [][LimitNext]_vars

----------------------------------------------------------------------------
(* fetch_prices called on its own, as price_search does from the command    *)
(* line, under every configuration.                                         *)

FetchInit ==
    /\ stream = <<>>
    /\ pos = 0
    /\ buffer = <<>>
    /\ pc = "call"
    /\ out = <<>>
    /\ stdout = <<>>
    /\ upstream = <<>>
    /\ handled = <<>>
    /\ cur = Idle
    /\ server = "azure-pricing-mcp"
    /\ RETRIES \in -1..MaxRetries
    /\ BACKOFF \in Backoffs
    /\ jsonErrIsRequestException \in BOOLEAN
    /\ attempt = 0
    /\ calls = 0
    /\ sleeps = <<>>
    /\ last_error = "none"
    /\ outcomes = <<>>
    /\ frames = 0
    /\ partial = FALSE
    /\ fetchRet = NotReturned

\* fetch_prices(filter_expr) is called
CallFetch ==
    /\ pc = "call"
    /\ FetchEnter
    /\ UNCHANGED <<loopVars, config>>

FetchNext ==
    \/ CallFetch
    \/ AttemptOk
    \/ AttemptTransportError
    \/ AttemptBadJson
    \/ BackoffSleep

FetchSpec == FetchInit /\ [][FetchNext]_vars

----------------------------------------------------------------------------
(* Properties of the dispatcher and the read loop, under Spec.              *)

\* the messages of h that ask for a response: JSON objects with a non-null id
Requests(h) == SelectSeq(h, LAMBDA m : m.kind = "object" /\ m.id \notin {"absent", "null"})

\* handle is inside a tool call: fetch_prices is running or has just ended
InHandler == pc \in {"fetch", "sleep", "ret"}

\* C1: every decoded JSON object with a non-null id is answered by exactly one
\* response frame, a result or an error, whatever came before it: the number
\* of responses written equals the number of such messages handled, less the
\* one whose handler is still running
C1_ExactlyOneResponse ==
    /\ Len(out) = Len(Requests(handled)) - (IF InHandler THEN 1 ELSE 0)
    /\ \A k \in 1..Len(out) :
         \/ out[k].code = 0 /\ out[k].result # NoResult
         \/ out[k].code < 0 /\ out[k].result = NoResult

\* two requests, the first answered with an error after a failed fetch, the
\* second with a result
C1_Witness ==
    /\ pc = "done"
    /\ Len(Requests(handled)) = 2
    /\ Len(out) = 2
    /\ out[1].code = -32000
    /\ out[2].code = 0

\* C2: handling a notification (no id) writes nothing, starts no tool handler
\* and makes no upstream call, whatever its method
C2_NotificationNoOp ==
    [][(handled' # handled /\ handled'[Len(handled')].kind = "object"
                           /\ handled'[Len(handled')].id = "absent")
        => (out' = out /\ pc' = "decode" /\ cur' = Idle /\ calls' = calls
                       /\ outcomes' = outcomes)]_vars

\* a tools/call for price_search sent as a notification has been handled and
\* the run ended with nothing written
C2_Witness ==
    /\ pc = "done"
    /\ out = <<>>
    /\ Len(handled) = 1
    /\ handled[1].id = "absent"
    /\ handled[1].method = "tools/call"
    /\ handled[1].name = "price_search"
    /\ handled[1].sku = "B2s"

\* the k-th response carries the id of the k-th request
InArrivalOrder ==
    /\ Len(out) <= Len(Requests(handled))
    /\ \A k \in 1..Len(out) : out[k].id = Requests(handled)[k].id

\* C3: responses are written in request-arrival order with the request's id,
\* and while a handler runs (fetch, retries and backoff sleeps included) no
\* byte is read and no further frame is decoded or dispatched
C3_Fifo ==
    /\ []InArrivalOrder
    /\ [][InHandler => (buffer' = buffer /\ handled' = handled /\ pos' = pos)]_vars

\* two requests answered in order, the first after a retried fetch
C3_Witness ==
    /\ pc = "done"
    /\ Len(out) = 2
    /\ out[1].id = "1"
    /\ out[1].result.kind = "price_search"
    /\ out[2].id = "2"
    /\ Len(sleeps) > 0

\* C4: a frame delivered in pieces is decoded as when delivered whole: while
\* bytes of it are missing the decoder waits with every byte kept and nothing
\* dispatched, and once the last byte is in the frame's message has been
\* handled exactly once and answered as handle answers it
C4_PartialRead ==
    \A b \in Bodies :
      stream \in {McpFrame(b), AltFrame(b)} =>
        LET msg == JsonLoads(b)
            whole == IF msg = JsonFail THEN <<>> ELSE <<msg>>
        IN  /\ pos < Len(stream) =>
                 handled = <<>> /\ out = <<>> /\ frames = 0
                    /\ buffer = SubSeq(stream, 1, pos)
            /\ (pos = Len(stream) /\ pc \in {"read", "done"}) =>
                 /\ handled = whole
                 /\ frames = 1
                 /\ buffer = <<>>
                 /\ Len(out) = Len(Requests(whole))
                 /\ Handle(server, msg).do = "write" => out = <<Handle(server, msg).resp>>

\* a price_search request arrived in at least two reads and has been answered
C4_Witness ==
    /\ stream = McpFrame(PriceSearchCall(<<"id:1">>))
    /\ partial
    /\ pc = "done"
    /\ Len(handled) = 1
    /\ Len(out) = 1
    /\ out[1].result.kind = "price_search"

\* the input is a malformed frame (header block h without Content-Length, then
\* its body mb) followed by the well-formed frame of b, all of it processed
ResyncDone(h, mb, b) == stream = h \o mb \o McpFrame(b) /\ pos = Len(stream) /\ pc \in {"read", "done"}

\* exactly the well-formed frame was decoded and dispatched, nothing is left
OnlySecond(b) == frames = 1 /\ handled = <<JsonLoads(b)>> /\ buffer = <<>>

\* C5 as claimed: after a frame whose header block has no Content-Length, the
\* well-formed frame that follows is the one frame decoded, whatever the
\* malformed frame's body
C5_Resync ==
    \A h \in BadHeaders, mb \in BadFrameBodies, b \in SecondBodies :
      ResyncDone(h, mb, b) => OnlySecond(b)

\* C5, amended: the same, for a malformed frame whose body holds no text that
\* matches Content-Length:\s*\d+
C5_ResyncPlainBody ==
    \A h \in BadHeaders, mb \in BadFrameBodies, b \in SecondBodies :
      (ResyncDone(h, mb, b) /\ HeaderMatch(Utf8Ignore(mb)) = -1) => OnlySecond(b)

\* a malformed frame with a JSON body was skipped and the request after it answered
C5_Witness ==
    \E h \in BadHeaders, b \in SecondBodies :
      /\ ResyncDone(h, Obj(<<"id:1", "method:ping">>), b)
      /\ pc = "done"
      /\ OnlySecond(b)
      /\ Len(out) = 1
      /\ out[1].id = "2"

\* C10 as claimed: a tools/call request whose params.name is unset or names no
\* registered tool is answered with -32601 and starts no tool, also when
\* params or params.arguments are absent
C10_UnknownTool ==
    /\ \A k \in 1..Len(out) :
         LET m == Requests(handled)[k]
         IN  (m.method = "tools/call" /\ m.name \notin RegisteredTools(server))
                => out[k].code = -32601
    /\ InHandler => handled[Len(handled)].name \in RegisteredTools(server)

\* the methods handle has a branch for
KnownMethods == {"initialize", "ping", "tools/list", "tools/call"}

\* the client's input is the frame of body a, then the frame of body b, and
\* the loop has taken all of it
BothTaken(a, b) ==
    /\ stream = McpFrame(a) \o McpFrame(b)
    /\ pos = Len(stream)
    /\ pc \in {"read", "done"}

\* C11: a request (non-null id) whose method is none of initialize, ping,
\* tools/list and tools/call, a missing or null method included, is answered
\* with error code -32601 and no result, whatever its params
C11_UnknownMethod ==
    \A k \in 1..Len(out) :
      Requests(handled)[k].method \notin KnownMethods =>
        out[k].code = -32601 /\ out[k].result = NoResult /\ out[k].id = Requests(handled)[k].id

\* a request with id 1 and the method "nope" was answered with -32601
C11_Witness ==
    /\ pc = "done"
    /\ Len(handled) = 1
    /\ handled[1].id = "1"
    /\ handled[1].method = "nope"
    /\ Len(out) = 1
    /\ out[1].code = -32601

\* a value of a required argument that leaves it missing: no key, null, ""
Missing(v) == v \in {"absent", "null", ""}

\* m is a tools/call for a tool registered in srv, with params an object and
\* arguments an object, null or absent, that lacks a required argument of
\* the tool
LacksRequired(srv, m) ==
    /\ m.method = "tools/call"
    /\ m.params = "dict"
    /\ m.arguments \in {"absent", "null", "dict"}
    /\ \/ srv = "azure-pricing-mcp" /\ m.name \in {"price_search", "cost_estimate"}
                                    /\ Missing(m.sku)
       \/ srv = "microsoft-docs-mcp" /\ m.name = "search" /\ Missing(m.query)
       \/ srv = "azure-resource-graph-mcp" /\ m.name = "query"
                                           /\ Missing(m.kusto) /\ Missing(m.query)

\* m is a cost_estimate call whose quantity int() cannot convert
BadQuantity(srv, m) ==
    /\ m.method = "tools/call"
    /\ m.params = "dict"
    /\ m.arguments = "dict"
    /\ srv = "azure-pricing-mcp"
    /\ m.name = "cost_estimate"
    /\ m.quantity \in {"x", "null"}

ToolFailed == pc = "ret" /\ cur # Idle /\ (fetchRet.kind = "raise" \/ fetchRet.data.shape # "dict")

\* the text of that failure
FailureText == IF fetchRet.kind = "raise" THEN fetchRet.exc ELSE "no attribute get"

\* m is a pricing tools/call that reaches price_search with a blank sku
BlankSkuCall(srv, m) ==
    /\ srv = "azure-pricing-mcp"
    /\ m.method = "tools/call"
    /\ m.params = "dict"
    /\ m.arguments = "dict"
    /\ m.sku = " "
    /\ \/ m.name = "price_search"
       \/ m.name = "cost_estimate" /\ m.quantity \in {"absent", "2", "0"}

\* C13: a tool that raises during tools/call (the fetch gave up, the reply is
\* no JSON object, the sku is blank) is answered with exactly one error
\* response, code -32000, the request's id and the failure's message; the
\* loop is then back at decoding, the buffer untouched, and the frame that
\* follows the failed call is decoded and answered
C13_HandlerFailure ==
    /\ [][ToolFailed =>
            /\ out' = Append(out, [id |-> cur.id, code |-> -32000,
                                   message |-> FailureText, result |-> NoResult])
            /\ pc' = "decode"
            /\ buffer' = buffer]_vars
    /\ [](\A k \in 1..Len(out) :
            BlankSkuCall(server, Requests(handled)[k]) =>
              out[k] = [id |-> Requests(handled)[k].id, code |-> -32000,
                        message |-> "sku must be a non-empty string", result |-> NoResult])
    /\ [](\A b \in SecondBodies :
            BothTaken(PriceSearchCall(<<"id:1">>), b) =>
               /\ handled = <<JsonLoads(PriceSearchCall(<<"id:1">>)), JsonLoads(b)>>
               /\ Len(out) = Len(Requests(handled))
               /\ buffer = <<>>)

\* a price_search whose fetch failed on every attempt was answered with
\* -32000 and the error's text, and the ping after it with a result
C13_Witness ==
    /\ pc = "done"
    /\ Len(handled) = 2
    /\ Len(out) = 2
    /\ out[1].id = "1"
    /\ out[1].code = -32000
    /\ out[1].message = "transport"
    /\ out[2].id = "2"
    /\ out[2].result.kind = "ping"

\* the frame at the front of the buffer is complete and its body is no JSON
\* text: it holds a byte that is not UTF-8, or it is none of the JSON values
BadFrameAtFront(bad) ==
    /\ pc = "decode"
    /\ Len(buffer) >= Len(McpFrame(bad))
    /\ SubSeq(buffer, 1, Len(McpFrame(bad))) = McpFrame(bad)

\* C14: a complete frame whose body fails UTF-8 or JSON decoding (an empty
\* body, a cut-off object, an invalid byte, text after the value) is dropped:
\* the next step takes exactly its bytes off the buffer, writes nothing and
\* calls no handler, and the frame after it is decoded and dispatched as if
\* it had come alone
C14_BadBodyDropped ==
    /\ [][\A bad \in BadBodies :
            BadFrameAtFront(bad) =>
              /\ buffer' = SubSeq(buffer, Len(McpFrame(bad)) + 1, Len(buffer))
              /\ out' = out
              /\ handled' = handled
              /\ pc' = "decode"
              /\ cur' = cur]_vars
    /\ [](\A bad \in BadBodies, b \in SecondBodies :
            BothTaken(bad, b) =>
              /\ handled = <<JsonLoads(b)>>
              /\ frames = 2
              /\ buffer = <<>>
              /\ Len(out) = Len(Requests(handled)))

\* a frame with an empty body came first; the request after it was answered
C14_Witness ==
    /\ BothTaken(<<>>, Obj(<<"id:2", "method:ping">>))
    /\ pc = "done"
    /\ frames = 2
    /\ Len(handled) = 1
    /\ Len(out) = 1
    /\ out[1].id = "2"
    /\ out[1].result.kind = "ping"

\* m has no usable method: the key is missing or its value is null
NoMethod(m) == m.method \in {"absent", "null"}

\* this step passes a message to handle
Handling == handled' # handled

\* C15 as claimed: a value that is no object, and an object without a usable
\* method, get no response: every response written answers a message that
\* has a method
C15_UnknownShapeSilent ==
    \A k \in 1..Len(out) : ~NoMethod(Requests(handled)[k])

\* C15, amended: a decoded value that is no object, and an object without a
\* non-null id (with or without a method), is ignored: nothing is written, no
\* tool starts and the loop goes on decoding; an object with a non-null id
\* and no usable method is answered with -32601
C15_UnknownShapeNoId ==
    /\ [][(Handling /\ \/ handled'[Len(handled')].kind # "object"
                        \/ handled'[Len(handled')].id \in {"absent", "null"})
            => (out' = out /\ pc' = "decode" /\ cur' = cur /\ calls' = calls)]_vars
    /\ [](\A k \in 1..Len(out) :
            NoMethod(Requests(handled)[k]) =>
              out[k].code = -32601 /\ out[k].id = Requests(handled)[k].id)

\* a JSON array came as the first message and was passed over in silence; the
\* request after it was answered
C15_Witness ==
    /\ BothTaken(<<"[1]">>, Obj(<<"id:2", "method:ping">>))
    /\ pc = "done"
    /\ Len(handled) = 2
    /\ handled[1].kind = "other"
    /\ Len(out) = 1
    /\ out[1].id = "2"

\* C16 as claimed: no decoded value makes handle raise into the read loop: a
\* step that hands a message to handle leaves the loop decoding or inside
\* the tool call, a tool call that ends leaves it decoding, and a first
\* message of any shape (params or arguments that are no objects included)
\* is answered once if it has an id and is followed by the handling of the
\* next frame
C16_DispatchNeverCrashes ==
    /\ [][Handling => pc' \in {"decode", "fetch", "ret"}]_vars
    /\ [][(pc = "ret" /\ cur # Idle) => pc' = "decode"]_vars
    /\ [](\A a \in FirstBodies \ BadBodies, b \in SecondBodies :
            BothTaken(a, b) =>
              /\ handled = <<JsonLoads(a), JsonLoads(b)>>
              /\ Len(out) = Len(Requests(handled)))
    /\ [](\A b \in Bodies \ BadBodies :
            (stream = McpFrame(b) /\ pos = Len(stream) /\ pc \in {"read", "done"}) =>
              /\ handled = <<JsonLoads(b)>>
              /\ Len(out) = Len(Requests(handled)))

\* C17 as claimed: the loop ends if and only if a read returns no bytes: it
\* stops in no other way, whatever message, header or body it was given; when
\* all input is read and the loop is back at the read, that read ends it; and
\* if it returns with an incomplete frame left in the buffer, nothing was
\* written for that frame
C17_EndsOnlyAtEndOfStream ==
    /\ [][(pc' # pc /\ pc' \in {"done", "crashed"})
             => (pc' = "done" /\ pc = "read" /\ pos = Len(stream))]_vars
    /\ [](pc = "done" => Len(out) = Len(Requests(handled)))
    /\ []((pc = "read" /\ pos = Len(stream)) => ENABLED ReadEOF)

\* C18: framing round trip: the bytes the writer produces for a JSON value x,
\* "Content-Length: ", the length of the serialised payload, the separator and
\* the payload, go through the read loop as exactly one frame, whose body
\* deserialises to x, with no byte left over, however the reads cut them
C18_FramingRoundTrip ==
    (pos = Len(stream) /\ pc \in {"read", "done"}) =>
      \A x \in Messages :
        stream = McpFrame(JsonDumps(x)) =>
          frames = 1 /\ handled = <<x>> /\ buffer = <<>>

\* a serialised cost_estimate call, read in several pieces, came out as the
\* one message it was made from
C18_Witness ==
    \E x \in Messages :
      /\ x.name = "cost_estimate"
      /\ x.sku = "B2s"
      /\ x.quantity = "2"
      /\ stream = McpFrame(JsonDumps(x))
      /\ partial
      /\ pc = "done"
      /\ frames = 1
      /\ handled = <<x>>
      /\ buffer = <<>>

\* fetch_prices has returned a JSON object to the tool named tool
Fetched(tool) ==
    /\ pc = "ret"
    /\ cur.tool = tool
    /\ fetchRet.kind = "value"
    /\ fetchRet.data.shape = "dict"

\* C19: price_search on an upstream reply of n items answers with status ok,
\* count = n and items = the first min(n, 5) upstream items in upstream
\* order: never more than 5, and 5 with count 10 for n = 10
C19_Truncation ==
    [][Fetched("price_search") =>
        LET n == Len(fetchRet.data.items)
            resp == out'[Len(out')]
        IN  /\ Len(out') = Len(out) + 1
            /\ resp.id = cur.id
            /\ resp.code = 0
            /\ resp.result.status = "ok"
            /\ resp.result.count = n
            /\ Len(resp.result.items) = (IF n < 5 THEN n ELSE 5)
            /\ \A i \in 1..Len(resp.result.items) :
                  resp.result.items[i] = fetchRet.data.items[i]]_vars

\* a reply of 10 items was answered with count 10 and the first 5 items
C19_Witness ==
    /\ pc = "done"
    /\ Len(out) = 1
    /\ out[1].result.kind = "price_search"
    /\ out[1].result.count = 10
    /\ out[1].result.items = <<Item(1), Item(2), Item(3), Item(4), Item(5)>>

\* C20: cost_estimate answers with status not-found exactly when the price
\* search gave no items, and with status ok whenever it gave at least one,
\* whatever the quantity (0 included), region and currency
C20_NotFound ==
    [][Fetched("cost_estimate") =>
        LET n == Len(fetchRet.data.items)
            resp == out'[Len(out')]
        IN  /\ Len(out') = Len(out) + 1
            /\ resp.id = cur.id
            /\ resp.code = 0
            /\ resp.result.status \in {"ok", "not-found"}
            /\ (resp.result.status = "not-found") <=> (n = 0)]_vars

\* a cost_estimate with quantity 0 and a region got an empty reply after a
\* retry and answered not-found
C20_Witness ==
    /\ pc = "done"
    /\ Len(handled) = 1
    /\ handled[1].name = "cost_estimate"
    /\ handled[1].quantity = "0"
    /\ handled[1].region = "eastus"
    /\ fetchRet.kind = "value"
    /\ fetchRet.data.items = <<>>
    /\ Len(sleeps) = 1
    /\ Len(out) = 1
    /\ out[1].result.kind = "cost_estimate"
    /\ out[1].result.status = "not-found"

\* the price the estimate is to rest on: the retailPrice of the first upstream
\* item if it is a number, 0 if it is null or missing
FirstPrice(items) == IF items[1].field = "number" THEN items[1].retailPrice ELSE 0

\* C21: when the reply has at least one item, cost_estimate reports
\* unit_price = the retailPrice of the first item (0 when it is missing or
\* null), the quantity it was called with, and monthly_usd = unit_price *
\* quantity * 730; the items after the first play no part
C21_MonthlyEstimate ==
    [][(Fetched("cost_estimate") /\ fetchRet.data.items # <<>>) =>
        LET resp == out'[Len(out')]
            price == FirstPrice(fetchRet.data.items)
        IN  /\ Len(out') = Len(out) + 1
            /\ resp.result.kind = "cost_estimate"
            /\ resp.result.unit_price = price
            /\ resp.result.quantity = cur.quantity
            /\ resp.result.monthly_usd = price * cur.quantity * 730]_vars

\* quantity 2, a first item priced 3 and a second priced 7: 4380 a month
C21_Witness ==
    /\ pc = "done"
    /\ Len(handled) = 1
    /\ handled[1].quantity = "2"
    /\ fetchRet.kind = "value"
    /\ fetchRet.data.items = <<Item(3), Item(7)>>
    /\ Len(out) = 1
    /\ out[1].result.unit_price = 3
    /\ out[1].result.monthly_usd = 4380

\* the tests of the clauses of filter f, in order
Tests(f) == [i \in 1..Len(f) |-> f[i].test]

\* the tests a filter is to have when the region and currency clauses are due
DueTests(region_due, currency_due) ==
    <<"contains(skuName">> \o (IF region_due THEN <<"armRegionName eq">> ELSE <<>>)
                          \o (IF currency_due THEN <<"currencyCode eq">> ELSE <<>>)

\* the argument was supplied and is not the empty string
NonEmpty(v) == v \notin {"absent", "null", ""}

AtMalformedHeader(n) ==
    /\ pc = "decode"
    /\ Find(buffer, Separator) = n
    /\ n >= 0
    /\ HeaderMatch(Utf8Ignore(SubSeq(buffer, 1, n))) = -1

\* C23: at a first header block of n bytes without Content-Length, the step
\* of the decoder takes the first n + 4 bytes off the buffer and no more,
\* writes and dispatches nothing, reads nothing and stays in the decoding loop
C23_SkipMalformedHeader ==
    [][\A n \in 0..Len(buffer) :
         AtMalformedHeader(n) =>
           /\ Len(buffer') = Len(buffer) - (n + 4)
           /\ buffer' = SubSeq(buffer, n + 5, Len(buffer))
           /\ out' = out
           /\ handled' = handled
           /\ frames' = frames
           /\ pos' = pos
           /\ pc' = "decode"]_vars

\* a header block without Content-Length was taken off the front of a request
\* that arrived with it: the request's frame is the buffer, nothing is written
C23_Witness ==
    \E h \in BadHeaders :
      /\ stream = h \o McpFrame(Obj(<<"id:2", "method:ping">>))
      /\ pos = Len(stream)
      /\ pc = "decode"
      /\ buffer = McpFrame(Obj(<<"id:2", "method:ping">>))
      /\ frames = 0
      /\ out = <<>>

\* what the first header block of the buffer declares, when the separator is
\* at n: its Content-Length, -1 without one, -2 for a Content-Length of more
\* than 4300 digits, which is more bytes than any buffer of the model holds
Declared(n) == HeaderMatch(Utf8Ignore(SubSeq(buffer, 1, n)))

\* the decoder is at a buffer without a separator, or with a first header
\* whose Content-Length is more than the bytes that follow its separator
AtIncompleteFrame ==
    /\ pc = "decode"
    /\ LET n == Find(buffer, Separator)
       IN  \/ n = -1
           \/ n >= 0 /\ Declared(n) = -2
           \/ n >= 0 /\ Declared(n) >= 0 /\ Len(buffer) - (n + 4) < Declared(n)

\* the decoder is at a buffer that starts with a whole frame: n header bytes,
\* the separator and the len body bytes the header declares
AtWholeFrame(n, len) ==
    /\ pc = "decode"
    /\ n >= 0
    /\ Find(buffer, Separator) = n
    /\ Declared(n) = len
    /\ len >= 0
    /\ Len(buffer) >= n + 4 + len

\* C24: at an incomplete frame the step of the decoder leaves the buffer as
\* it is, dispatches and writes nothing and goes to the next read; at a whole
\* frame it takes exactly header + separator + body off the buffer
C24_IncompleteFrameWaits ==
    /\ [][AtIncompleteFrame =>
            /\ buffer' = buffer
            /\ out' = out
            /\ handled' = handled
            /\ frames' = frames
            /\ pc' = "read"]_vars
    /\ [][LET n == Find(buffer, Separator)
               len == Declared(n)
           IN
            AtWholeFrame(n, len) =>
              /\ Len(buffer') = Len(buffer) - (n + 4 + len)
              /\ buffer' = SubSeq(buffer, n + 4 + len + 1, Len(buffer))
              /\ frames' = frames + 1]_vars

\* buf is the start of a frame and not yet a frame: it has no separator, or a
\* first header with a Content-Length of more bytes than follow its separator
IncompleteFrame(buf) ==
    LET n == Find(buf, Separator)
        len == HeaderMatch(Utf8Ignore(SubSeq(buf, 1, n)))
    IN  \/ n = -1
        \/ n >= 0 /\ len >= 0 /\ Len(buf) - (n + 4) < len

\* C25: whenever the loop is at the read, the buffer is empty or the start of
\* one frame that is not yet whole; and of two frames sent one after the
\* other, each one that has arrived in full is decoded and handled, the buffer
\* being the bytes received after the last of them
C25_ReadBuffer ==
    pc = "read" =>
      /\ IncompleteFrame(buffer)
      /\ \A a \in FirstBodies, b \in SecondBodies :
            stream = McpFrame(a) \o McpFrame(b) =>
              LET first == Len(McpFrame(a))
                  taken == IF pos < first THEN 0 ELSE IF pos < Len(stream) THEN first ELSE pos
              IN  /\ frames = (IF pos < first THEN 0 ELSE IF pos < Len(stream) THEN 1 ELSE 2)
                  /\ buffer = SubSeq(stream, taken + 1, pos)
                  /\ Len(handled) = Cardinality({i \in 1..frames :
                                       JsonLoads(IF i = 1 THEN a ELSE b) # JsonFail})

\* the loop is at the read with the first of two requests answered and, in
\* the buffer, the header of the second with a part of its body
C25_Witness ==
    LET a == Obj(<<"id:1", "method:ping">>)
        b == PriceSearchCall(<<"id:2">>)
    IN  /\ stream = McpFrame(a) \o McpFrame(b)
        /\ pc = "read"
        /\ frames = 1
        /\ Len(out) = 1
        /\ Find(buffer, Separator) >= 0
        /\ Len(buffer) > Find(buffer, Separator) + 4
        /\ pos < Len(stream)

\* C26: a step that decodes a frame takes a header with Content-Length len
\* and the len bytes after its separator, all of them in the buffer, and it is
\* those len bytes that json.loads is given; no other step decodes or handles
\* anything. So a request whose body holds the separator or the text of a
\* header, sent alone or before a ping, is one frame however it is split into
\* reads
C26_DelimitedByLength ==
    /\ [][(frames' # frames \/ handled' # handled) =>
            LET n == Find(buffer, Separator)
                len == Declared(n)
                body == SubSeq(buffer, n + 5, n + 4 + len)
            IN  /\ n >= 0
                /\ len >= 0
                /\ Len(buffer) >= n + 4 + len
                /\ frames' = frames + 1
                /\ buffer' = SubSeq(buffer, n + 4 + len + 1, Len(buffer))
                /\ handled' = IF JsonLoads(body) = JsonFail THEN handled
                                                            ELSE Append(handled, JsonLoads(body))]_vars
    /\ [](\A b \in HeaderLikeBodies :
            pos = Len(stream) /\ pc \in {"read", "done"} =>
              /\ stream = McpFrame(b) => frames = 1 /\ handled = <<JsonLoads(b)>>
              /\ stream = McpFrame(b) \o McpFrame(Obj(<<"id:2", "method:ping">>)) =>
                    /\ frames = 2
                    /\ handled = <<JsonLoads(b), JsonLoads(Obj(<<"id:2", "method:ping">>))>>)

\* a ping whose body holds the text Content-Length: 2 and then the separator
\* arrived in more than one read before another ping; both were answered
C26_Witness ==
    LET b == Obj(<<"id:1", "method:ping", "note:'">> \o LengthText \o <<"'">> \o Separator)
    IN  /\ stream = McpFrame(b) \o McpFrame(Obj(<<"id:2", "method:ping">>))
        /\ partial
        /\ pc = "done"
        /\ frames = 2
        /\ Len(out) = 2
        /\ out[1].id = "1"
        /\ out[2].id = "2"

\* the fetch of the tool call in hand is over and each of its attempts, one
\* at least, failed with a transport error
FetchExhausted ==
    /\ pc = "ret"
    /\ cur # Idle
    /\ outcomes # <<>>
    /\ \A i \in 1..Len(outcomes) : outcomes[i].kind = "transport"

\* C27: when every attempt of a tool call's fetch has failed with a transport
\* error there were exactly RETRIES network calls, and the next step writes
\* one response: the error -32000 with the request's id and the error's
\* message; the loop goes on decoding, and a ping sent after the call gets
\* its result
C27_FetchExhausted ==
    /\ [](FetchExhausted => calls = RETRIES /\ Len(outcomes) = RETRIES)
    /\ [][FetchExhausted =>
            /\ Len(out') = Len(out) + 1
            /\ out'[Len(out')].id = cur.id
            /\ out'[Len(out')].code = -32000
            /\ out'[Len(out')].message = "transport"
            /\ out'[Len(out')].result.kind = "none"
            /\ SubSeq(out', 1, Len(out)) = out
            /\ pc' = "decode"]_vars
    /\ []((BothTaken(PriceSearchCall(<<"id:1">>), Obj(<<"id:2", "method:ping">>))
              /\ out[1].code = -32000) =>
            /\ Len(out) = 2
            /\ out[2].id = "2"
            /\ out[2].code = 0
            /\ out[2] = McpResult("2", out[2].result))

\* with RETRIES = 2 a price_search made two calls and slept once, both calls
\* failed, it was answered with -32000, and the ping after it with a result
C27_Witness ==
    /\ BothTaken(PriceSearchCall(<<"id:1">>), Obj(<<"id:2", "method:ping">>))
    /\ pc = "done"
    /\ RETRIES = 2
    /\ calls = 2
    /\ Len(sleeps) = 1
    /\ outcomes = <<Outcome("transport", NoReply), Outcome("transport", NoReply)>>
    /\ Len(out) = 2
    /\ out[1] = [id |-> "1", code |-> -32000, message |-> "transport", result |-> NoResult]
    /\ out[2].code = 0

\* the decoder is at a whole frame whose body json.loads rejects
AtBadBody ==
    LET n == Find(buffer, Separator)
    IN  /\ AtWholeFrame(n, Declared(n))
        /\ JsonLoads(SubSeq(buffer, n + 5, n + 4 + Declared(n))) = JsonFail

\* C28: every response written is a result (code 0 in the model) or an error
\* with one of the codes -32601, -32602, -32000, an error carrying no result;
\* and the step from a header block without Content-Length or from a body
\* that is no JSON writes nothing
C28_ErrorCodes ==
    /\ [](\A k \in 1..Len(out) :
            /\ out[k].code \in {0, -32601, -32602, -32000}
            /\ out[k].code # 0 => out[k].result.kind = "none")
    /\ [][((\E n \in 0..Len(buffer) : AtMalformedHeader(n)) \/ AtBadBody) => out' = out]_vars

\* an unknown tool was answered with -32601 and the failed fetch of the call
\* after it with -32000
C28_Witness ==
    /\ pc = "done"
    /\ Len(out) = 2
    /\ out[1].code = -32601
    /\ out[2].code = -32000

\* a call without sku was answered with -32602
C28_WitnessInvalidParams ==
    /\ pc = "done"
    /\ Len(out) = 1
    /\ out[1].code = -32602

\* the header of a frame up to its number
LengthPrefix ==
    <<"C", "o", "n", "t", "e", "n", "t", "-", "L", "e", "n", "g", "t", "h", ":", " ">>

RECURSIVE Payloads(_)
\* bytes read as frames by a client: the payloads of the frames when bytes is
\* frame after frame, each the prefix, a decimal number, the separator and
\* as many bytes as the number says; a payload <<"broken">> where it is not
Payloads(bytes) ==
    IF bytes = <<>> THEN <<>>
    ELSE LET h == Find(bytes, Separator)
             ds == SubSeq(bytes, 17, h)
             n == ParseInt(ds)
         IN  IF \/ h < 17
                \/ SubSeq(bytes, 1, 16) # LengthPrefix
                \/ \E k \in 1..Len(ds) : ds[k] \notin {"0", "1", "2", "3", "4", "5", "6", "7", "8", "9"}
                \/ Len(bytes) < h + 4 + n
             THEN <<(<<"broken">>)>>
             ELSE <<SubSeq(bytes, h + 5, h + 4 + n)>>
                     \o Payloads(SubSeq(bytes, h + 4 + n + 1, Len(bytes)))

\* C30: at every point the bytes written are frame after frame, one for each
\* response written and in their order, the number of each header being the
\* length of the payload that follows it; and bytes once written stay
C30_WholeFrames ==
    /\ [](Payloads(stdout) = [k \in 1..Len(out) |-> ResponseDumps(out[k])])
    /\ [][/\ Len(stdout') >= Len(stdout)
           /\ SubSeq(stdout', 1, Len(stdout)) = stdout]_vars

\* two responses are written, the first a price_search result of more than
\* nine bytes, and the client reads them as two frames
C30_Witness ==
    /\ pc = "done"
    /\ Len(out) = 2
    /\ out[1].result.kind = "price_search"
    /\ out[1].result.count = 3
    /\ Len(Payloads(stdout)) = 2
    /\ Len(Payloads(stdout)[1]) > 9
    /\ Payloads(stdout)[2] = ResponseDumps(out[2])

\* response r without the identifier it echoes
LessId(r) == [r EXCEPT !.id = ""]

\* request m without its identifier
LessRequestId(m) == [m EXCEPT !.id = ""]

\* C31: two requests of one run that are the same up to their identifier,
\* and whose tool calls, if any, got the same from upstream, are answered the
\* same up to the identifier, whatever was handled before each of them
C31_Stateless ==
    \A i, j \in 1..Len(out) :
      (/\ LessRequestId(Requests(handled)[i]) = LessRequestId(Requests(handled)[j])
       /\ upstream[i] = upstream[j]) =>
        LessId(out[i]) = LessId(out[j])

\* tools/list was sent before and after initialize and answered with the
\* same list both times
C31_Witness ==
    /\ stream = McpFrame(Obj(<<"id:1", "method:tools/list">>))
                  \o McpFrame(Obj(<<"id:2", "method:initialize">>))
                  \o McpFrame(Obj(<<"id:1", "method:tools/list">>))
    /\ pc = "done"
    /\ Len(out) = 3
    /\ out[2].result.kind = "initialize"
    /\ out[1].result.tools # <<>>
    /\ out[3] = out[1]

\* the same price_search was sent before and after initialize, upstream gave
\* three items both times, and the two answers are the same
C31_WitnessToolCall ==
    /\ stream = McpFrame(PriceSearchCall(<<"id:1">>))
                  \o McpFrame(Obj(<<"id:2", "method:initialize">>))
                  \o McpFrame(PriceSearchCall(<<"id:1">>))
    /\ pc = "done"
    /\ Len(out) = 3
    /\ upstream[1] = upstream[3]
    /\ out[1].result.count = 3
    /\ out[3] = out[1]

\* response r without the server name it carries
LessService(r) == [r EXCEPT !.result.service = ""]

\* the tool names some server registers
AnyRegistered == UNION {RegisteredTools(s) : s \in Servers}

\* m is a request of the protocol layer: initialize, ping, a method no server
\* has, or a tools/call whose name no server registers
ProtocolLayer(m) ==
    \/ m.method \in {"initialize", "ping"}
    \/ m.method \notin KnownMethods
    \/ m.method = "tools/call" /\ m.name \notin AnyRegistered

\* C32 as claimed: the response this server wrote to a request of the
\* protocol layer is, up to the server name, the response each of the three
\* servers gives to that request
C32_SameProtocolLayer ==
    \A k \in 1..Len(out) :
      ProtocolLayer(Requests(handled)[k]) =>
        \A s \in Servers :
          /\ Handle(s, Requests(handled)[k]).do = "write"
          /\ LessService(Handle(s, Requests(handled)[k]).resp) = LessService(out[k])

RECURSIVE WholeBodies(_)
\* the bodies of the frames the decoder cuts off bytes when all of bytes is in
\* the buffer after one read
WholeBodies(bytes) ==
    LET n == Find(bytes, Separator)
        len == HeaderMatch(Utf8Ignore(SubSeq(bytes, 1, n)))
    IN  IF n = -1 THEN <<>>
        ELSE IF len = -1 THEN WholeBodies(SubSeq(bytes, n + 5, Len(bytes)))
        ELSE IF Len(bytes) < n + 4 + len THEN <<>>
        ELSE <<SubSeq(bytes, n + 5, n + 4 + len)>>
                \o WholeBodies(SubSeq(bytes, n + 4 + len + 1, Len(bytes)))

\* the messages of those bodies that are JSON
WholeMessages(bytes) ==
    SelectSeq([k \in 1..Len(WholeBodies(bytes)) |-> JsonLoads(WholeBodies(bytes)[k])],
              LAMBDA m : m # JsonFail)

\* what handle writes for request m when its fetch, if it made one, ended as ret
Answer(m, ret) ==
    IF ret = NotReturned THEN Handle(server, m).resp
    ELSE ToolResponse([id |-> m.id, tool |-> m.name,
                       quantity |-> IF m.name = "cost_estimate" THEN QtyInt(m.quantity) ELSE 0],
                      ret)

RECURSIVE AnswerBytes(_, _)
\* the frames of the answers to the first k requests of reqs
AnswerBytes(reqs, k) ==
    IF k = 0 THEN <<>>
    ELSE AnswerBytes(reqs, k - 1) \o McpFrame(ResponseDumps(Answer(reqs[k], upstream[k])))

\* C33: whenever the loop is at the read or has ended, however the bytes
\* received so far were cut into reads, the frames decoded and the messages
\* handled are those of one read of all these bytes, and the bytes written
\* are the answers to these messages, one frame each, given what the fetches
\* returned
C33_ChunkingIndependence ==
    pc \in {"read", "done"} =>
      LET received == SubSeq(stream, 1, pos)
      IN  /\ frames = Len(WholeBodies(received))
          /\ handled = WholeMessages(received)
          /\ Len(out) = Len(Requests(handled))
          /\ stdout = AnswerBytes(Requests(handled), Len(out))

\* a header block without Content-Length, a body that is no JSON and a
\* price_search, received in more than one read, have all been taken: one
\* frame more was decoded than messages handled, and one response written
C33_Witness ==
    /\ partial
    /\ pc = "done"
    /\ stream = McpFrame(<<"{", "id:1", "xFF", "}">>) \o McpFrame(PriceSearchCall(<<"id:2">>))
    /\ frames = 2
    /\ Len(handled) = 1
    /\ Len(out) = 1
    /\ out[1].result.kind = "price_search"
    /\ stdout # <<>>

\* the same for a stream that starts with a header block without Content-Length
C33_WitnessMalformedHeader ==
    /\ partial
    /\ pc = "done"
    /\ stream = <<"X", ":", "1">> \o Separator \o McpFrame(Obj(<<"id:2", "method:ping">>))
    /\ frames = 1
    /\ Len(out) = 1

\* the codes of a request that is refused before its tool starts
Refusals == {-32601, -32602}

\* C34: a response with code -32601 or -32602 is written by the step that
\* dispatches the request, with no network call made or begun by that step,
\* and never by the step that follows a fetch; so no such response rests on a
\* fetch
C34_RefusedBeforeFetch ==
    /\ [](\A k \in 1..Len(out) : out[k].code \in Refusals => upstream[k] = NotReturned)
    /\ [][(Len(out') = Len(out) + 1 /\ out'[Len(out')].code \in Refusals) =>
            /\ pc = "decode"
            /\ pc' = "decode"
            /\ handled' # handled
            /\ calls' = calls
            /\ outcomes' = outcomes
            /\ sleeps' = sleeps]_vars

\* a call of an unknown tool was refused with -32601 without a fetch, and
\* only the price_search after it went to the network, once
C34_Witness ==
    /\ pc = "done"
    /\ Len(out) = 2
    /\ handled[1].method = "tools/call"
    /\ out[1].code = -32601
    /\ upstream[1] = NotReturned
    /\ out[2].result.kind = "price_search"
    /\ calls = 1

\* the step hands a JSON object whose id is null to handle
HandlesNullId ==
    /\ Len(handled') = Len(handled) + 1
    /\ handled'[Len(handled')].kind = "object"
    /\ handled'[Len(handled')].id = "null"

\* C36: the step that hands a message with "id": null to handle writes
\* nothing, starts no tool and no fetch, and leaves the loop decoding,
\* whatever the method; so every response written echoes an id that is not
\* null
C36_NullIdIsNotification ==
    /\ [][HandlesNullId =>
            /\ out' = out
            /\ stdout' = stdout
            /\ pc' = "decode"
            /\ cur' = cur
            /\ calls' = calls
            /\ outcomes' = outcomes]_vars
    /\ [](\A k \in 1..Len(out) : out[k].id \notin {"null", "absent"})

\* a price_search with "id": null was handled and the stream has ended:
\* nothing written, no network call
C36_Witness ==
    /\ pc = "done"
    /\ Len(handled) = 1
    /\ handled[1].id = "null"
    /\ handled[1].method = "tools/call"
    /\ handled[1].name = "price_search"
    /\ handled[1].sku = "B2s"
    /\ out = <<>>
    /\ stdout = <<>>
    /\ calls = 0

\* the names tools/list of this server returns
Listed == {McpToolsList(server)[i] : i \in 1..Len(McpToolsList(server))}

\* C37 as claimed: every answer to tools/list carries the same list; a
\* tools/call that names a listed tool starts it or is answered with
\* something other than -32601, and a tools/call with any other name, or
\* none, is answered with -32601
C37_DiscoveryMatchesDispatch ==
    /\ \A k \in 1..Len(out) :
         LET m == Requests(handled)[k]
         IN  /\ m.method = "tools/list" => out[k].result.tools = McpToolsList(server)
             /\ (m.method = "tools/call" /\ m.params # "other") =>
                   (m.name \in Listed <=> out[k].code # -32601)
    /\ InHandler => handled[Len(handled)].name \in Listed

\* C38: a pass of the inner loop stops it with the buffer as it was, or takes
\* at least 4 bytes off the buffer and adds none; while a handler runs the
\* buffer is not touched; and in the loop the decoder always has a pass to
\* take.  So between two reads the loop makes at most Len(buffer) / 4 passes
C38_DecodeLoopTerminates ==
    /\ [][pc = "decode" =>
            \/ pc' = "read" /\ buffer' = buffer
            \/ /\ pc' \in {"decode", "fetch", "ret"}
               /\ Len(buffer') <= Len(buffer) - 4
               /\ buffer' = SubSeq(buffer, Len(buffer) - Len(buffer') + 1, Len(buffer))]_vars
    /\ [][(pc \in {"fetch", "sleep", "ret"}) =>
            /\ buffer' = buffer
            /\ pc' \in {"fetch", "sleep", "ret", "decode"}]_vars
    /\ [](pc = "decode" => Decode(buffer).status \in {"wait", "skip", "frame"})

\* one read brought a header block without Content-Length and two pings,
\* the first without a header of its own; the loop has made two passes, the
\* buffer is empty and the loop still has to stop
C38_Witness ==
    /\ ~partial
    /\ pos = Len(stream)
    /\ pc = "decode"
    /\ stream = <<"X", ":", "1">> \o Separator \o Obj(<<"id:1", "method:ping">>)
                   \o McpFrame(Obj(<<"id:2", "method:ping">>))
    /\ buffer = <<>>
    /\ frames = 1
    /\ Len(out) = 1

----------------------------------------------------------------------------
(* Properties of fetch_prices, under FetchSpec.                             *)

AllTransport == \A i \in 1..Len(outcomes) : outcomes[i].kind = "transport"

\* C6: a fetch makes at most RETRIES network calls (none when RETRIES is not
\* positive), and one whose every attempt failed with a transport error has
\* made exactly RETRIES calls and raises the last error
C6_RetryBound ==
    /\ calls <= (IF RETRIES > 0 THEN RETRIES ELSE 0)
    /\ calls = Len(outcomes)
    /\ (pc = "ret" /\ calls > 0 /\ AllTransport) =>
          calls = RETRIES /\ fetchRet = Raised("transport")

\* three attempts, three transport errors, the error raised
C6_Witness ==
    /\ pc = "ret"
    /\ RETRIES = 3
    /\ calls = 3
    /\ AllTransport
    /\ fetchRet = Raised("transport")

\* C7 as claimed: a 2xx reply whose body is not JSON ends the fetch at once:
\* it is the last call, the fetch has raised, and no sleep follows it
C7_DecodeErrorNotRetried ==
    \A i \in 1..Len(outcomes) :
      outcomes[i].kind = "badjson" =>
        i = Len(outcomes) /\ pc = "ret" /\ fetchRet.kind = "raise" /\ Len(sleeps) = i - 1

\* C8: the first success ends the fetch: if it is the call of attempt index k
\* there were k + 1 calls and k sleeps, the parsed body of that reply is
\* returned, and no call follows
C8_SuccessShortCircuits ==
    \A i \in 1..Len(outcomes) :
      outcomes[i].kind = "ok" =>
        /\ i = Len(outcomes)
        /\ pc = "ret"
        /\ calls = i
        /\ attempt = i - 1
        /\ Len(sleeps) = i - 1
        /\ fetchRet = Returned(outcomes[i].data)

\* two failures, then a reply with items, returned after three calls
C8_Witness ==
    /\ pc = "ret"
    /\ fetchRet.kind = "value"
    /\ Len(fetchRet.data.items) = 2
    /\ calls = 3
    /\ Len(sleeps) = 2

\* C9: the i-th sleep of an invocation lasts BACKOFF * 2^(i-1), 500 ms then
\* 1000 ms for BACKOFF = 500; every failed attempt but the last is followed by
\* one sleep, the last attempt and a success by none; the delays grow strictly
C9_BackoffSchedule ==
    /\ \A i \in 1..Len(sleeps) : sleeps[i] = BACKOFF * 2^(i - 1)
    /\ BACKOFF = 500 =>
         \A i \in 1..Len(sleeps) : (i = 1 => sleeps[i] = 500) /\ (i = 2 => sleeps[i] = 1000)
    /\ \A i, j \in 1..Len(sleeps) : i < j => sleeps[i] < sleeps[j]
    /\ pc \in {"call", "fetch"} => Len(sleeps) = calls
    /\ (pc \in {"sleep", "ret"} /\ calls > 0) => Len(sleeps) = calls - 1
    /\ calls = 0 => sleeps = <<>>

\* four failed attempts with the default backoff: three sleeps, none after the last
C9_Witness ==
    /\ pc = "ret"
    /\ BACKOFF = 500
    /\ calls = 4
    /\ fetchRet.kind = "raise"
    /\ sleeps = <<500, 1000, 2000>>

RECURSIVE SumSeq(_)
\* the sum of the numbers of sequence q
SumSeq(q) == IF q = <<>> THEN 0 ELSE q[1] + SumSeq(Tail(q))

\* C29: at every point of a fetch with RETRIES >= 1 the time slept so far is
\* at most BACKOFF * (2^RETRIES - 1), whatever the attempts' outcomes
C29_TotalBackoffBound ==
    RETRIES >= 1 => SumSeq(sleeps) <= BACKOFF * (2^RETRIES - 1)

\* three attempts have failed, the fetch has slept 500 ms and 1000 ms and
\* has raised
C29_Witness ==
    /\ pc = "ret"
    /\ RETRIES = 3
    /\ BACKOFF = 500
    /\ calls = 3
    /\ fetchRet.kind = "raise"
    /\ sleeps = <<500, 1000>>

\* C35: with RETRIES zero or negative a fetch calls the network never and
\* sleeps never, and ends by raising "Failed to fetch pricing data"; and with
\* any RETRIES a fetch that returned a value made a call, its last, that
\* succeeded with that value
C35_NoAttempts ==
    /\ RETRIES <= 0 =>
          /\ calls = 0
          /\ sleeps = <<>>
          /\ pc \in {"call", "ret"}
          /\ pc = "ret" => fetchRet = [kind |-> "raise", exc |-> "Failed to fetch pricing data",
                                       data |-> NoReply]
    /\ fetchRet.kind = "value" =>
          /\ calls >= 1
          /\ outcomes[Len(outcomes)] = [kind |-> "ok", data |-> fetchRet.data]

\* with RETRIES = 0 the fetch has ended: no call, no sleep, the error raised
C35_Witness ==
    /\ RETRIES = 0
    /\ pc = "ret"
    /\ calls = 0
    /\ sleeps = <<>>
    /\ fetchRet.kind = "raise"
    /\ fetchRet.exc = "Failed to fetch pricing data"

\* the same with RETRIES = -1
C35_WitnessNegative ==
    /\ RETRIES = -1
    /\ pc = "ret"
    /\ calls = 0
    /\ fetchRet.kind = "raise"

====
